---- MODULE Spec2Model ----
(***************************************************************************)
(* A model of the relay transport core of nassh:                           *)
(*   - nassh.Buffer (src/nassh/js/nassh_buffer.js), the ack-gated FIFO     *)
(*     byte buffer;                                                        *)
(*   - nassh.Stream.GoogleRelay / GoogleRelayXHR                           *)
(*     (src/nassh/js/nassh_stream_google_relay.js), the relay session and  *)
(*     the HTTP polling transport.                                         *)
(*                                                                         *)
(* Sizes are scaled: the model counts storage in bytes but takes 2 bytes   *)
(* for the 1024 of the growth step, 2 for the 32*1024 of the initial       *)
(* storage and 8 for the 128*1024 of the shrink threshold (the ratio       *)
(* 128KB = 4 * 32KB of the source is kept, and the initial storage stays a *)
(* multiple of the growth step).                                           *)
(*                                                                         *)
(* Byte contents: the code never inspects the bytes it stores, so the k-th *)
(* byte ever handed to a writer is given the value 1 + k % 255.  All bytes *)
(* of a run are then distinct and differ from the 0 of fresh storage, and  *)
(* a byte that is lost, duplicated, moved or overwritten shows in the      *)
(* contents read back.                                                     *)
(***************************************************************************)
EXTENDS Integers, Sequences, FiniteSets, TLC

\* ------------------------------------------------------------------ sizes

\* new ArrayBuffer(32 * 1024) of the constructor and of ack (scaled).
BaseSize == 2
\* The 1024 of write's growth computation (scaled).
GrowUnit == 2
\* The 128 * 1024 of ack's shrink test (scaled).
ShrinkSize == 8

\* Bounds of the buffer specifications.
MaxTotal == 6
MaxWrite == 3
MaxRead == 3
MaxAck == 3

Min(a, b) == IF a < b THEN a ELSE b
Max(a, b) == IF a < b THEN b ELSE a

\* The value of the byte at offset k of the stream handed to the writer.
Byte(k) == 1 + (k % 255)
\* The n bytes of that stream that start at offset k.
Stream(k, n) == [i \in 1..n |-> Byte(k + i - 1)]

IsPrefix(s, t) == Len(s) <= Len(t) /\ s = SubSeq(t, 1, Len(s))

\* ------------------------------------------------------- typed-array views

\* A Uint8Array view of the storage: byteOffset and length.
View(off, len) == [off |-> off, len |-> len]

\* new ArrayBuffer(size): zero-filled storage.
NewArrayBuffer(size) == [i \in 1..size |-> 0]

\* view.subarray(begin, end): negative indices count from the end, both
\* indices are clamped to the view, an inverted range is empty.
Subarray(view, begin, end) ==
    LET b == IF begin < 0 THEN Max(view.len + begin, 0) ELSE Min(begin, view.len)
        e == IF end < 0 THEN Max(view.len + end, 0) ELSE Min(end, view.len)
    IN  View(view.off + b, Max(e - b, 0))

\* The bytes a view shows of the storage u8.
Bytes(u8, view) == SubSeq(u8, view.off + 1, view.off + view.len)

\* view.set(src): the storage with src copied to the start of the view.
SetBytes(u8, view, src) ==
    [i \in 1..Len(u8) |->
        IF view.off < i /\ i <= view.off + Len(src) THEN src[i - view.off] ELSE u8[i]]

\* ------------------------------------------------------------ nassh.Buffer

\* The constructor.
Buffer(autoack) ==
    [u8_ |-> NewArrayBuffer(BaseSize),
     free_ |-> View(0, BaseSize),
     queued_ |-> View(0, 0),
     readCount_ |-> 0,
     autoack_ |-> autoack]

\* buffer_.byteLength
Capacity(b) == Len(b.u8_)

getQueuedBytes(b) == b.queued_.len - b.readCount_

\* A growth computation that rounds total up to a multiple of the unit.
GrowSize_roundUp(total) == ((total + GrowUnit - 1) \div GrowUnit) * GrowUnit

\* The size write allocates when the storage is too small for total bytes.
GrowSize(total) == ((total \div GrowUnit) + 1) * GrowUnit

\* write's test for allocating new storage.
MustGrow(b, n) == b.free_.len < n /\ Capacity(b) < b.queued_.len + n

\* A write that allocates or compacts without u8_.set(queued_).
write_noMove(b, data) ==
    LET n == Len(data)
        moved == b.free_.len < n
        u8a == IF MustGrow(b, n)
               THEN NewArrayBuffer(GrowSize(b.queued_.len + n))
               ELSE b.u8_
        queueda == IF moved
                   THEN Subarray(View(0, Len(u8a)), 0, b.queued_.len)
                   ELSE b.queued_
        freea == IF moved
                 THEN Subarray(View(0, Len(u8a)), b.queued_.len, Len(u8a))
                 ELSE b.free_
    IN  [b EXCEPT
            !.u8_ = SetBytes(u8a, freea, data),
            !.free_ = Subarray(freea, n, freea.len),
            !.queued_ = Subarray(View(0, Len(u8a)), queueda.off,
                                 queueda.off + queueda.len + n)]

write(b, data) ==
    LET n == Len(data)
        moved == b.free_.len < n
        store == IF MustGrow(b, n)
                 THEN NewArrayBuffer(GrowSize(b.queued_.len + n))
                 ELSE b.u8_
        \* u8_.set(queued_): the queued bytes go to the front.
        u8a == IF moved
               THEN SetBytes(store, View(0, Len(store)), Bytes(b.u8_, b.queued_))
               ELSE b.u8_
        queueda == IF moved
                   THEN Subarray(View(0, Len(u8a)), 0, b.queued_.len)
                   ELSE b.queued_
        freea == IF moved
                 THEN Subarray(View(0, Len(u8a)), b.queued_.len, Len(u8a))
                 ELSE b.free_
    IN  [b EXCEPT
            !.u8_ = SetBytes(u8a, freea, data),
            !.free_ = Subarray(freea, n, freea.len),
            !.queued_ = Subarray(View(0, Len(u8a)), queueda.off,
                                 queueda.off + queueda.len + n)]

\* The reset of ack's else branch, shrinking only above ShrinkSize.
AckReset_shrinkAbove(b) ==
    LET u8a == IF Capacity(b) > ShrinkSize
               THEN NewArrayBuffer(BaseSize)
               ELSE b.u8_
    IN  [b EXCEPT
            !.u8_ = u8a,
            !.free_ = View(0, Len(u8a)),
            !.queued_ = Subarray(View(0, Len(u8a)), 0, 0),
            !.readCount_ = 0]

\* The reset of ack's else branch.
AckReset(b) ==
    LET u8a == IF Capacity(b) >= ShrinkSize
               THEN NewArrayBuffer(BaseSize)
               ELSE b.u8_
    IN  [b EXCEPT
            !.u8_ = u8a,
            !.free_ = View(0, Len(u8a)),
            !.queued_ = Subarray(View(0, Len(u8a)), 0, 0),
            !.readCount_ = 0]

\* An ack whose partial branch leaves readCount_ alone.
ack_keepCursor(b, length) ==
    IF length < b.queued_.len
    THEN [b EXCEPT !.queued_ = Subarray(b.queued_, length, b.queued_.len)]
    ELSE AckReset(b)

\* An ack that takes the partial branch also when length = queued_.length.
ack_partialAtEnd(b, length) ==
    IF length <= b.queued_.len
    THEN [b EXCEPT
            !.queued_ = Subarray(b.queued_, length, b.queued_.len),
            !.readCount_ = b.readCount_ - length]
    ELSE AckReset(b)

ack(b, length) ==
    IF length < b.queued_.len
    THEN [b EXCEPT
            !.queued_ = Subarray(b.queued_, length, b.queued_.len),
            !.readCount_ = b.readCount_ - length]
    ELSE AckReset(b)

\* The view read takes of queued_.
\* read without its auto-ack.
read_ignoresAutoack(b, length) ==
    LET ret == Subarray(b.queued_, b.readCount_, b.readCount_ + length)
    IN  [ret |-> Bytes(b.u8_, ret),
         buf |-> [b EXCEPT !.readCount_ = b.readCount_ + ret.len]]

ReadView(b, length) == Subarray(b.queued_, b.readCount_, b.readCount_ + length)

\* read: the bytes returned and the buffer afterwards.
read(b, length) ==
    LET ret == ReadView(b, length)
        b1 == [b EXCEPT !.readCount_ = b.readCount_ + ret.len]
    IN  [ret |-> Bytes(b.u8_, ret),
         buf |-> IF b.autoack_ THEN ack(b1, ret.len) ELSE b1]

\* The queued bytes, read or not, oldest first.
Queued(b) == Bytes(b.u8_, b.queued_)

\* --------------------------------------------- one buffer, driven freely

VARIABLES
    buf,        \* the buffer
    last,       \* the last call: its name, argument and result, and queued_.length,
                \* readCount_ and buffer_.byteLength before it
    written,    \* number of bytes passed to write so far
    readOut,    \* concatenation of the byte sequences returned by read
                \* (dropped once overAcked)
    returned,   \* number of bytes returned by read so far
    acked,      \* number of bytes released by ack so far
    dropped,    \* number of unread bytes discarded by acks that reset the buffer
    overAcked,  \* some ack(n) had n > readCount_
    relocated   \* how writes have moved unread bytes so far: "grow", "compact"
                \* (dropped once overAcked)

bufVars == <<buf, last, written, readOut, returned, acked, dropped, overAcked, relocated>>

\* An auto-ack buffer beside a manual-ack buffer that is acked after every read.
VARIABLES
    autoBuf,    \* new nassh.Buffer(true)
    manBuf,     \* new nassh.Buffer()
    pairLast,   \* the last call made on both, with what each read returned
    pairWritten \* number of bytes written to each so far

pairVars == <<autoBuf, manBuf, pairLast, pairWritten>>

\* The polling transport: a nassh.Stream.GoogleRelayXHR with its requests,
\* its timers, the relay and the consumer.
VARIABLES
    xhr

xhrVars == <<xhr>>

\* The stream of the socket transport, with its socket, timers, relay and
\* consumer.
VARIABLES
    ws

wsVars == <<ws>>

\* A nassh.WorkerPipeline with its two processes, their timers, and the
\* producer and consumer it was given.
VARIABLES
    pipe

pipeVars == <<pipe>>

vars == <<bufVars, pairVars, xhrVars, wsVars, pipeVars>>

Call(op, n, ret, b) ==
    [op |-> op, n |-> n, ret |-> ret,
     qlen |-> b.queued_.len, rc |-> b.readCount_, cap |-> Capacity(b)]

BufInit ==
    /\ \E a \in BOOLEAN : buf = Buffer(a)
    /\ last = Call("new", 0, <<>>, buf)
    /\ written = 0
    /\ readOut = <<>>
    /\ returned = 0
    /\ acked = 0
    /\ dropped = 0
    /\ overAcked = FALSE
    /\ relocated = {}

Write(n) ==
    /\ written + n <= MaxTotal
    /\ buf' = write(buf, Stream(written, n))
    /\ last' = Call("write", n, <<>>, buf)
    /\ written' = written + n
    /\ relocated' =
            IF overAcked \/ getQueuedBytes(buf) = 0 \/ ~(buf.free_.len < n) THEN relocated
            ELSE IF MustGrow(buf, n) THEN relocated \cup {"grow"}
            ELSE relocated \cup {"compact"}
    /\ UNCHANGED <<readOut, returned, acked, dropped, overAcked, pairVars, xhrVars, wsVars, pipeVars>>

Read(n) ==
    LET r == read(buf, n)
    IN  /\ buf' = r.buf
        /\ last' = Call("read", n, r.ret, buf)
        /\ readOut' = IF overAcked THEN readOut ELSE readOut \o r.ret
        /\ returned' = returned + Len(r.ret)
        /\ acked' = IF buf.autoack_ THEN acked + Min(Len(r.ret), buf.queued_.len) ELSE acked
        /\ dropped' = IF buf.autoack_ /\ Len(r.ret) >= buf.queued_.len
                      THEN dropped + (getQueuedBytes(buf) - Len(r.ret))
                      ELSE dropped
        /\ UNCHANGED <<written, overAcked, relocated, pairVars, xhrVars, wsVars, pipeVars>>

Ack(n) ==
    /\ buf' = ack(buf, n)
    /\ last' = Call("ack", n, <<>>, buf)
    /\ acked' = acked + Min(n, buf.queued_.len)
    /\ dropped' = IF n < buf.queued_.len THEN dropped ELSE dropped + getQueuedBytes(buf)
    /\ overAcked' = (overAcked \/ n > buf.readCount_)
    /\ readOut' = IF overAcked' THEN <<>> ELSE readOut
    /\ relocated' = IF overAcked' THEN {} ELSE relocated
    /\ UNCHANGED <<written, returned, pairVars, xhrVars, wsVars, pipeVars>>

BufNext ==
    \/ \E n \in 0..MaxWrite : Write(n)
    \/ \E n \in 0..MaxRead : Read(n)
    \/ \E n \in 0..MaxAck : Ack(n)

\* ------------------------- auto-ack beside manual-ack with read-then-ack

PairInit ==
    /\ autoBuf = Buffer(TRUE)
    /\ manBuf = Buffer(FALSE)
    /\ pairLast = [op |-> "new", n |-> 0, aret |-> <<>>, mret |-> <<>>]
    /\ pairWritten = 0

PairWrite(n) ==
    /\ pairWritten + n <= MaxTotal
    /\ autoBuf' = write(autoBuf, Stream(pairWritten, n))
    /\ manBuf' = write(manBuf, Stream(pairWritten, n))
    /\ pairLast' = [op |-> "write", n |-> n, aret |-> <<>>, mret |-> <<>>]
    /\ pairWritten' = pairWritten + n
    /\ UNCHANGED <<bufVars, xhrVars, wsVars, pipeVars>>

\* read(n) on the auto-ack buffer; read(n), then ack(n), on the manual one.
PairRead(n) ==
    LET a == read(autoBuf, n)
        m == read(manBuf, n)
    IN  /\ autoBuf' = a.buf
        /\ manBuf' = ack(m.buf, n)
        /\ pairLast' = [op |-> "read", n |-> n, aret |-> a.ret, mret |-> m.ret]
        /\ UNCHANGED <<pairWritten, bufVars, xhrVars, wsVars, pipeVars>>

PairNext ==
    \/ \E n \in 0..MaxWrite : PairWrite(n)
    \/ \E n \in 0..MaxRead : PairRead(n)

\* ------------------------------------------------------- base64url text

\* A text is a sequence of base64 digits, each the 6-bit value it stands
\* for, and of Pad, the "=" character.  The base64 and the base64url
\* alphabets name the same 64 values, so a change of alphabet changes no digit.
Pad == 64

RECURSIVE btoa(_)
btoa(bytes) ==
    IF Len(bytes) = 0 THEN <<>>
    ELSE IF Len(bytes) = 1
    THEN <<bytes[1] \div 4, (bytes[1] % 4) * 16, Pad, Pad>>
    ELSE IF Len(bytes) = 2
    THEN <<bytes[1] \div 4,
           (bytes[1] % 4) * 16 + (bytes[2] \div 16),
           (bytes[2] % 16) * 4,
           Pad>>
    ELSE <<bytes[1] \div 4,
           (bytes[1] % 4) * 16 + (bytes[2] \div 16),
           (bytes[2] % 16) * 4 + (bytes[3] \div 64),
           bytes[3] % 64>>
         \o btoa(SubSeq(bytes, 4, Len(bytes)))

\* Decodes whole groups of four; a group ends at its first Pad.
RECURSIVE atob(_)
atob(text) ==
    IF Len(text) < 4 THEN <<>>
    ELSE (IF text[3] = Pad
          THEN <<text[1] * 4 + (text[2] \div 16)>>
          ELSE IF text[4] = Pad
          THEN <<text[1] * 4 + (text[2] \div 16),
                 (text[2] % 16) * 16 + (text[3] \div 4)>>
          ELSE <<text[1] * 4 + (text[2] \div 16),
                 (text[2] % 16) * 16 + (text[3] \div 4),
                 (text[3] % 4) * 64 + text[4]>>)
         \o atob(SubSeq(text, 5, Len(text)))

\* nassh.base64ToBase64Url: the URL-safe alphabet, the padding removed.
base64ToBase64Url(text) == SelectSeq(text, LAMBDA d : d # Pad)

\* nassh.base64UrlToBase64: the standard alphabet, the padding restored.
base64UrlToBase64(text) ==
    text \o (IF Len(text) % 4 = 2 THEN <<Pad, Pad>>
             ELSE IF Len(text) % 4 = 3 THEN <<Pad>>
             ELSE <<>>)

\* What either end puts on the wire for bytes, and reads from it.
Base64UrlEncode(bytes) == base64ToBase64Url(btoa(bytes))
Base64UrlDecode(text) == atob(base64UrlToBase64(text))

\* --------------------------------------------- nassh.Stream.GoogleRelay

\* maxMessageLength of the polling transport: the 1024 of the source, scaled
\* like GrowUnit.
XhrMaxMessageLength == 2

\* Bounds of the polling specification.

\* Bytes passed to asyncWrite in a run.
MaxOut == 4
\* Bytes passed to one asyncWrite.
MaxAsyncWrite == 3
\* Bytes the relay has for the client in a run.
MaxIn == 4
\* Bytes in one read response.
MaxChunk == 3
\* Backoff timers set in a run.
MaxBackoffs == 2
\* Backoff timers set in a run of polls of an idle session.
MaxChain == 50

\* An XMLHttpRequest: its readyState, the status of its response, and the
\* sid, the count (rcnt or wcnt) and the data of the URL it was opened with.
XMLHttpRequest ==
    [readyState |-> "UNSENT", status |-> 0, sid |-> "null", cnt |-> 0,
     data |-> <<>>, responseText |-> <<>>]

\* open(...) and send().
Sent(sid, cnt, data) ==
    [readyState |-> "OPENED", status |-> 0, sid |-> sid, cnt |-> cnt,
     data |-> data, responseText |-> <<>>]

\* The constructors of GoogleRelay and GoogleRelayXHR, and around the stream:
\* the handshake request, the pending timers, the relay and the consumer.
GoogleRelayXHR ==
    [class |-> "GoogleRelayXHR",
     sessionID_ |-> "null",
     backoffMS_ |-> 0,
     backoffTimeout_ |-> 0,         \* 0 is null, otherwise the timer's id
     writeBuffer_ |-> Buffer(FALSE),
     writeCount_ |-> 0,
     onWriteSuccess_ |-> "null",
     readCount_ |-> 0,
     writeRequest_ |-> XMLHttpRequest,
     readRequest_ |-> XMLHttpRequest,
     lastWriteSize_ |-> 0,
     sessionRequest |-> XMLHttpRequest,
     timers |-> {},                 \* ids of the timers set and not yet fired or cleared
     timerSeq |-> 0,                \* number of timers set so far
     failing |-> FALSE,             \* a request has failed since the last one answered 200
     overlapped |-> FALSE,          \* open() was called on a request still in flight
     gone |-> FALSE,                \* the relay has dropped the session
     closed |-> FALSE,              \* close() was called
     onComplete |-> <<>>,           \* the calls of asyncOpen_'s onComplete: the result and
                                    \* the status reported with it (-1 when none is)
     accepted |-> 0,                \* number of bytes passed to asyncWrite
     delivered |-> <<>>,            \* the bytes given to onDataAvailable
     lastSent |-> [wcnt |-> 0, bytes |-> <<>>],  \* the last write request answered 200
     carried |-> 0,                 \* bytes in the write requests answered 200 so far
     writeSuccess |-> -1,           \* the last value passed to onWriteSuccess_
     overlay |-> [n |-> 0, ms |-> 0],
                                    \* relay_.io.showOverlay: the number of calls and the
                                    \* duration given to the last one
     expiries |-> 0,                \* the number of runs of onBackoffExpired_
     cleared |-> 0,                 \* the number of calls of clearTimeout
     unanswered |-> FALSE]          \* a request has failed and none was opened since

\* nassh.Stream.prototype.close
close(s) == [s EXCEPT !.closed = TRUE]

isRequestBusy_(r) == r.readyState # "DONE" /\ r.readyState # "UNSENT"

\* A resumeRead_ that does not look at the read request before opening it.
GoogleRelayXHR_resumeRead_noBusyCheck(s) ==
    IF s.backoffTimeout_ # 0 THEN s
    ELSE [s EXCEPT
            !.overlapped = @ \/ isRequestBusy_(s.readRequest_),
            !.unanswered = FALSE,
            !.readRequest_ = Sent(s.sessionID_, s.readCount_, <<>>)]

\* nassh.Stream.GoogleRelayXHR.prototype.resumeRead_
GoogleRelayXHR_resumeRead_(s) ==
    IF isRequestBusy_(s.readRequest_) THEN s
    ELSE IF s.backoffTimeout_ # 0 THEN s
    ELSE [s EXCEPT
            !.overlapped = @ \/ isRequestBusy_(s.readRequest_),
            !.unanswered = FALSE,
            !.readRequest_ = Sent(s.sessionID_, s.readCount_, <<>>)]

\* A sendWrite_ that takes everything unread, whatever maxMessageLength is.
GoogleRelayXHR_sendWrite_unlimited(s) ==
    IF getQueuedBytes(s.writeBuffer_) = 0 \/ isRequestBusy_(s.writeRequest_) THEN s
    ELSE IF s.backoffTimeout_ # 0 THEN s
    ELSE LET r == read(s.writeBuffer_, getQueuedBytes(s.writeBuffer_))
         IN  [s EXCEPT
                !.overlapped = @ \/ isRequestBusy_(s.writeRequest_),
                !.unanswered = FALSE,
            !.unanswered = FALSE,
                !.writeBuffer_ = r.buf,
                !.writeRequest_ = Sent(s.sessionID_, s.writeCount_, Base64UrlEncode(r.ret)),
                !.lastWriteSize_ = Len(r.ret)]

\* nassh.Stream.GoogleRelayXHR.prototype.sendWrite_
GoogleRelayXHR_sendWrite_(s) ==
    IF getQueuedBytes(s.writeBuffer_) = 0 \/ isRequestBusy_(s.writeRequest_) THEN s
    ELSE IF s.backoffTimeout_ # 0 THEN s
    ELSE LET r == read(s.writeBuffer_, XhrMaxMessageLength)
         IN  [s EXCEPT
                !.overlapped = @ \/ isRequestBusy_(s.writeRequest_),
                !.unanswered = FALSE,
            !.unanswered = FALSE,
                !.writeBuffer_ = r.buf,
                !.writeRequest_ = Sent(s.sessionID_, s.writeCount_, Base64UrlEncode(r.ret)),
                !.lastWriteSize_ = Len(r.ret)]

\* ------------------------------------------- nassh.Stream.GoogleRelayWS

\* Acks and positions on the wire are unsigned 24-bit numbers: x & 0xffffff
\* is x modulo AckRange.
AckRange == 16777216

\* maxMessageLength of the socket transport: the 32 * 1024 - 4 of the source,
\* scaled like XhrMaxMessageLength.
WsMaxMessageLength == 2

\* The length of ackTimes_.
AckTimesLength == 10

\* Bounds of the socket specifications.

\* Bytes passed to asyncWrite in a run.
WsMaxOut == 3
\* Bytes passed to one asyncWrite.
WsMaxAsyncWrite == 3
\* Payload bytes the relay has for the client in a run.
WsMaxIn == 1
\* Payload bytes in one inbound frame.
WsMaxChunk == 1
\* Backoff timers set in a run.
WsMaxBackoffs == 1
\* The milliseconds between a send and the ack that matches it.
Latencies == {1}

\* The constructors of GoogleRelay and GoogleRelayWS with asyncOpen_'s
\* args.resume and the relay's report flags, and around the stream: the
\* handshake request, the current WebSocket, the pending timers, the relay
\* and the consumer.
GoogleRelayWS(resume, report) ==
    [class |-> "GoogleRelayWS",
     sessionID_ |-> "null",
     backoffMS_ |-> 0,
     backoffTimeout_ |-> 0,         \* 0 is null, otherwise the timer's id
     writeBuffer_ |-> Buffer(FALSE),
     writeCount_ |-> 0,
     onWriteSuccess_ |-> "null",
     readCount_ |-> 0,
     socket_ |-> 0,                 \* 0 is null, otherwise the socket's id
     ackTime_ |-> 0,                \* 0, or 1 for the time of the last send
     expectedAck_ |-> 0,
     ackTimes_ |-> [i \in 1..AckTimesLength |-> 0],
     ackTimesIndex_ |-> 0,
     connectCount_ |-> 0,
     resume_ |-> resume,
     reportConnectAttempts |-> report,
     reportAckLatency |-> report,
     readyState |-> 0,              \* of the current socket: 0 connecting, 1 open
     uri |-> [ack |-> 0, pos |-> 0, try |-> 0],  \* of the current socket
     sockSeq |-> 0,                 \* number of sockets made so far
     sessionRequest |-> XMLHttpRequest,
     timers |-> {},                 \* ids of the backoff timers set and not yet fired or cleared
     timerSeq |-> 0,                \* number of backoff timers set so far
     sendTimers |-> 0,              \* number of pending setTimeout(sendWrite_, 0)
     closed |-> FALSE,              \* close() was called
     onComplete |-> <<>>,           \* the calls of asyncOpen_'s onComplete
     base |-> 0,                    \* stream offset, both ways, at which the run starts
     accepted |-> 0,                \* number of bytes passed to asyncWrite
     delivered |-> <<>>,            \* the payload bytes given to onDataAvailable
     frame |-> [n |-> 0, sock |-> 0, ack |-> 0, pos |-> 0, payload |-> <<>>],
                                    \* the last data frame sent: its number, the socket it
                                    \* went to, its header and payload, and the stream
                                    \* offset the payload was read at
     sentUpTo |-> 0,                \* the stream offset after the last byte sent so far
     texts |-> <<>>,                \* the averages sent as "A:" text messages
     samples |-> 0,                 \* the number of runs of recordAckTime_
     writeSuccess |-> -1,           \* the last value passed to onWriteSuccess_
     overlay |-> [n |-> 0, ms |-> 0],
                                    \* relay_.io.showOverlay: the number of calls and the
                                    \* duration given to the last one
     expiries |-> 0,                \* the number of runs of onBackoffExpired_
     cleared |-> 0]                 \* the number of calls of clearTimeout

\* A resumeRead_ that connects whether or not a backoff timer is pending.
GoogleRelayWS_resumeRead_noBackoffCheck(s) ==
    IF s.sessionID_ # "null" /\ s.socket_ = 0
    THEN LET count == IF s.reportConnectAttempts
                      THEN s.connectCount_ + 1
                      ELSE s.connectCount_
         IN  [s EXCEPT
                !.connectCount_ = count,
                !.socket_ = s.sockSeq + 1,
                !.sockSeq = s.sockSeq + 1,
                !.readyState = 0,
                !.uri = [ack |-> s.readCount_ % AckRange,
                         pos |-> s.writeCount_ % AckRange,
                         try |-> IF s.reportConnectAttempts THEN count ELSE 0]]
    ELSE s

\* nassh.Stream.GoogleRelayWS.prototype.resumeRead_
GoogleRelayWS_resumeRead_(s) ==
    IF s.backoffTimeout_ # 0 THEN s
    ELSE IF s.sessionID_ # "null" /\ s.socket_ = 0
    THEN LET count == IF s.reportConnectAttempts
                      THEN s.connectCount_ + 1
                      ELSE s.connectCount_
         IN  [s EXCEPT
                !.connectCount_ = count,
                !.socket_ = s.sockSeq + 1,
                !.sockSeq = s.sockSeq + 1,
                !.readyState = 0,
                !.uri = [ack |-> s.readCount_ % AckRange,
                         pos |-> s.writeCount_ % AckRange,
                         try |-> IF s.reportConnectAttempts THEN count ELSE 0]]
    ELSE s

\* A sendWrite_ that leaves what one frame cannot take to the next call.
GoogleRelayWS_sendWrite_noFollowUp(s) ==
    IF s.socket_ = 0 \/ s.readyState # 1 \/ getQueuedBytes(s.writeBuffer_) = 0 THEN s
    ELSE IF s.backoffTimeout_ # 0 THEN s
    ELSE LET r == read(s.writeBuffer_, WsMaxMessageLength)
             pos == s.writeCount_ + s.writeBuffer_.readCount_
         IN  [s EXCEPT
                !.writeBuffer_ = r.buf,
                !.frame = [n |-> s.frame.n + 1,
                           sock |-> s.socket_,
                           ack |-> s.readCount_ % AckRange,
                           pos |-> pos,
                           payload |-> r.ret],
                !.sentUpTo = Max(s.sentUpTo, pos + Len(r.ret)),
                !.ackTime_ = 1,
                !.expectedAck_ = s.writeCount_ % AckRange,
                !.writeSuccess = IF s.onWriteSuccess_ = "function"
                                 THEN s.writeCount_ ELSE @]

\* nassh.Stream.GoogleRelayWS.prototype.sendWrite_
GoogleRelayWS_sendWrite_(s) ==
    IF s.socket_ = 0 \/ s.readyState # 1 \/ getQueuedBytes(s.writeBuffer_) = 0 THEN s
    ELSE IF s.backoffTimeout_ # 0 THEN s
    ELSE LET r == read(s.writeBuffer_, WsMaxMessageLength)
             pos == s.writeCount_ + s.writeBuffer_.readCount_
         IN  [s EXCEPT
                !.writeBuffer_ = r.buf,
                !.frame = [n |-> s.frame.n + 1,
                           sock |-> s.socket_,
                           ack |-> s.readCount_ % AckRange,
                           pos |-> pos,
                           payload |-> r.ret],
                !.sentUpTo = Max(s.sentUpTo, pos + Len(r.ret)),
                !.ackTime_ = 1,
                !.expectedAck_ = s.writeCount_ % AckRange,
                !.writeSuccess = IF s.onWriteSuccess_ = "function"
                                 THEN s.writeCount_ ELSE @,
                !.sendTimers = IF getQueuedBytes(r.buf) # 0 THEN @ + 1 ELSE @]

\* this.resumeRead_() and this.sendWrite_(), by the class of the stream.
resumeRead_(s) ==
    IF s.class = "GoogleRelayWS"
    THEN GoogleRelayWS_resumeRead_(s)
    ELSE GoogleRelayXHR_resumeRead_(s)

sendWrite_(s) ==
    IF s.class = "GoogleRelayWS"
    THEN GoogleRelayWS_sendWrite_(s)
    ELSE GoogleRelayXHR_sendWrite_(s)

\* An asyncWrite that stores the callback of a call with no data.
asyncWrite_storesCallbackOfEmpty(s, data) ==
    LET s1 == [s EXCEPT
                    !.writeBuffer_ = IF Len(data) = 0 THEN @ ELSE write(@, data),
                    !.onWriteSuccess_ = "function"]
    IN  IF Len(data) = 0 THEN s1
        ELSE IF s1.backoffTimeout_ = 0 THEN sendWrite_(s1) ELSE s1

asyncWrite(s, data) ==
    IF Len(data) = 0 THEN s
    ELSE LET s1 == [s EXCEPT
                        !.writeBuffer_ = write(s.writeBuffer_, data),
                        !.onWriteSuccess_ = "function"]
         IN  IF s1.backoffTimeout_ = 0 THEN sendWrite_(s1) ELSE s1

\* A timer expiry that resumes the read and leaves the write to the next call.
onBackoffExpired_readOnly(s) ==
    resumeRead_([s EXCEPT !.backoffTimeout_ = 0,
                          !.expiries = @ + 1])

\* nassh.Stream.GoogleRelay.prototype.onBackoffExpired_
onBackoffExpired_(s) ==
    sendWrite_(resumeRead_([s EXCEPT !.backoffTimeout_ = 0,
                                     !.expiries = @ + 1]))

\* A requestSuccess_ that runs the expiry action and leaves the timer set.
requestSuccess_noClearTimeout(s, isRead) ==
    LET s1 == [s EXCEPT !.backoffMS_ = 0]
    IN  IF s1.backoffTimeout_ # 0
        THEN onBackoffExpired_(s1)
        ELSE IF isRead THEN resumeRead_(s1) ELSE sendWrite_(s1)

\* A requestSuccess_ that leaves backoffMS_ as it was.
requestSuccess_keepsDuration(s, isRead) ==
    IF s.backoffTimeout_ # 0
    THEN onBackoffExpired_([s EXCEPT !.timers = s.timers \ {s.backoffTimeout_},
                                     !.cleared = @ + 1])
    ELSE IF isRead THEN resumeRead_(s) ELSE sendWrite_(s)

requestSuccess_(s, isRead) ==
    LET s1 == [s EXCEPT !.backoffMS_ = 0]
    IN  IF s1.backoffTimeout_ # 0
        THEN \* clearTimeout(this.backoffTimeout_)
             onBackoffExpired_([s1 EXCEPT !.timers = s1.timers \ {s1.backoffTimeout_},
                                          !.cleared = @ + 1])
        ELSE IF isRead THEN resumeRead_(s1) ELSE sendWrite_(s1)

\* A backoff that starts over at 1 ms when it passes 10000 ms.
NextBackoffMS_startsOver(ms) ==
    IF ms = 0 THEN 1
    ELSE IF ms * 2 + 13 > 10000 THEN 1 ELSE ms * 2 + 13

\* The next backoff duration, never brought back under 10000.
NextBackoffMS_noWrap(ms) == IF ms = 0 THEN 1 ELSE ms * 2 + 13

\* The next backoff duration.
NextBackoffMS(ms) ==
    IF ms = 0 THEN 1
    ELSE IF ms * 2 + 13 > 10000 THEN 10000 - ((ms * 2 + 13) % 9000)
    ELSE ms * 2 + 13

\* A test that shows the retry message for every backoff.
ShowsOverlay_always(ms) == TRUE

\* this.backoffMS_ >= 1000
ShowsOverlay(ms) == ms >= 1000

\* A requestError_ that backs off again while a timer is pending.
requestError_ignoresTimer(s, isRead) ==
    IF s.sessionID_ = "null" THEN s
    ELSE [s EXCEPT
            !.backoffMS_ = NextBackoffMS(s.backoffMS_),
            !.overlay = IF ShowsOverlay(NextBackoffMS(s.backoffMS_))
                        THEN [n |-> @.n + 1, ms |-> NextBackoffMS(s.backoffMS_) + 500]
                        ELSE @,
            !.backoffTimeout_ = s.timerSeq + 1,
            !.timers = s.timers \cup {s.timerSeq + 1},
            !.timerSeq = s.timerSeq + 1]

requestError_(s, isRead) ==
    IF s.sessionID_ = "null" \/ s.backoffTimeout_ # 0 THEN s
    ELSE [s EXCEPT
            !.backoffMS_ = NextBackoffMS(s.backoffMS_),
            !.overlay = IF ShowsOverlay(NextBackoffMS(s.backoffMS_))
                        THEN [n |-> @.n + 1, ms |-> NextBackoffMS(s.backoffMS_) + 500]
                        ELSE @,
            !.backoffTimeout_ = s.timerSeq + 1,
            !.timers = s.timers \cup {s.timerSeq + 1},
            !.timerSeq = s.timerSeq + 1]

\* ------------------------------- nassh.Stream.GoogleRelayWS: its events

RECURSIVE Sum(_)
Sum(seq) == IF seq = <<>> THEN 0 ELSE seq[1] + Sum(Tail(seq))

\* Math.round(Sum(seq) / Len(seq)) for times that are not negative.
RoundedAverage(seq) == (2 * Sum(seq) + Len(seq)) \div (2 * Len(seq))

\* A recordAckTime_ that sends the average whatever reportAckLatency is.
recordAckTime_reportsAlways(s, deltaTime) ==
    LET times == [s.ackTimes_ EXCEPT ![s.ackTimesIndex_ + 1] = deltaTime]
        index == (s.ackTimesIndex_ + 1) % AckTimesLength
    IN  [s EXCEPT
            !.ackTimes_ = times,
            !.ackTimesIndex_ = index,
            !.samples = @ + 1,
            !.texts = IF index = 0
                      THEN Append(@, RoundedAverage(times))
                      ELSE @]

\* nassh.Stream.GoogleRelayWS.prototype.recordAckTime_
recordAckTime_(s, deltaTime) ==
    LET times == [s.ackTimes_ EXCEPT ![s.ackTimesIndex_ + 1] = deltaTime]
        index == (s.ackTimesIndex_ + 1) % AckTimesLength
    IN  [s EXCEPT
            !.ackTimes_ = times,
            !.ackTimesIndex_ = index,
            !.samples = @ + 1,
            !.texts = IF index = 0 /\ s.reportAckLatency
                      THEN Append(@, RoundedAverage(times))
                      ELSE @]

onSocketOpen_(s, target) ==
    IF target # s.socket_ THEN s
    ELSE requestSuccess_([s EXCEPT !.connectCount_ = 0], FALSE)

\* The wrap-around delta with the last mask left out.
AckDelta_unmasked(hdr, writeCount) == (hdr % AckRange) - (writeCount % AckRange)

\* ((ack & 0xffffff) - (this.writeCount_ & 0xffffff)) & 0xffffff
AckDelta(hdr, writeCount) ==
    ((hdr % AckRange) - (writeCount % AckRange)) % AckRange

\* An onSocketData_ that closes on a header over 0xffffff and keeps the
\* session.
onSocketData_keepsSession(s, target, hdr, payload, now) ==
    IF target # s.socket_ THEN s
    ELSE IF hdr > AckRange - 1
    THEN close(s)
    ELSE LET s1 == IF s.ackTime_ # 0 /\ hdr = s.expectedAck_
                   THEN [recordAckTime_(s, now) EXCEPT !.ackTime_ = 0]
                   ELSE s
             delta == AckDelta(hdr, s1.writeCount_)
             s2 == [s1 EXCEPT
                        !.writeBuffer_ = ack(s1.writeBuffer_, delta),
                        !.writeCount_ = s1.writeCount_ + delta]
             s3 == IF Len(payload) # 0
                   THEN [s2 EXCEPT
                            !.delivered = s2.delivered \o payload,
                            !.readCount_ = s2.readCount_ + Len(payload)]
                   ELSE s2
         IN  requestSuccess_(s3, FALSE)

\* An onSocketData_ that reports the success of a read.
onSocketData_reportsRead(s, target, hdr, payload, now) ==
    IF target # s.socket_ THEN s
    ELSE IF hdr > AckRange - 1
    THEN [close(s) EXCEPT !.sessionID_ = "null"]
    ELSE LET s1 == IF s.ackTime_ # 0 /\ hdr = s.expectedAck_
                   THEN [recordAckTime_(s, now) EXCEPT !.ackTime_ = 0]
                   ELSE s
             delta == AckDelta(hdr, s1.writeCount_)
             s2 == [s1 EXCEPT
                        !.writeBuffer_ = ack(s1.writeBuffer_, delta),
                        !.writeCount_ = s1.writeCount_ + delta]
             s3 == IF Len(payload) # 0
                   THEN [s2 EXCEPT
                            !.delivered = s2.delivered \o payload,
                            !.readCount_ = s2.readCount_ + Len(payload)]
                   ELSE s2
         IN  requestSuccess_(s3, TRUE)

\* The frame e.data is the 4 bytes of the ack hdr followed by payload; now is
\* Date.now() - this.ackTime_ when ackTime_ is set.
onSocketData_(s, target, hdr, payload, now) ==
    IF target # s.socket_ THEN s
    ELSE IF hdr > AckRange - 1
    THEN [close(s) EXCEPT !.sessionID_ = "null"]
    ELSE LET s1 == IF s.ackTime_ # 0 /\ hdr = s.expectedAck_
                   THEN [recordAckTime_(s, now) EXCEPT !.ackTime_ = 0]
                   ELSE s
             delta == AckDelta(hdr, s1.writeCount_)
             s2 == [s1 EXCEPT
                        !.writeBuffer_ = ack(s1.writeBuffer_, delta),
                        !.writeCount_ = s1.writeCount_ + delta]
             s3 == IF Len(payload) # 0
                   THEN [s2 EXCEPT
                            !.delivered = s2.delivered \o payload,
                            !.readCount_ = s2.readCount_ + Len(payload)]
                   ELSE s2
         IN  requestSuccess_(s3, FALSE)

\* An onSocketError_ that takes the event of any socket for one of the
\* current socket.
onSocketError_anyTarget(s, target) ==
    LET s1 == [s EXCEPT !.socket_ = 0]
    IN  IF s.resume_ THEN requestError_(s1, TRUE) ELSE close(s1)

\* An onSocketError_ that backs off whether or not the stream is resumable.
onSocketError_alwaysRetries(s, target) ==
    IF target # s.socket_ THEN s
    ELSE requestError_([s EXCEPT !.socket_ = 0], TRUE)

\* this.socket_.close() ends the socket; its later events have another target.
onSocketError_(s, target) ==
    IF target # s.socket_ THEN s
    ELSE LET s1 == [s EXCEPT !.socket_ = 0]
         IN  IF s.resume_ THEN requestError_(s1, TRUE) ELSE close(s1)

\* ------------------------------------------ nassh.Stream.GoogleRelayXHR

\* The response text's length counted as the number of bytes.
CountedBytes_textLength(text) == Len(text)

\* The number of bytes onReadReady_ counts for a response text.
CountedBytes(text) == (Len(text) * 3) \div 4

\* An onReadReady_ that reports the success of a write.
onReadReady_reportsWrite(s) ==
    IF s.readRequest_.readyState # "DONE" THEN s
    ELSE IF s.readRequest_.status = 410
    THEN [close(s) EXCEPT !.sessionID_ = "null"]
    ELSE IF s.readRequest_.status # 200
    THEN requestError_(s, TRUE)
    ELSE requestSuccess_(
            [s EXCEPT
                !.readCount_ = s.readCount_ + CountedBytes(s.readRequest_.responseText),
                !.delivered = s.delivered \o Base64UrlDecode(s.readRequest_.responseText)],
            FALSE)

\* nassh.Stream.GoogleRelayXHR.prototype.onReadReady_
onReadReady_(s) ==
    IF s.readRequest_.readyState # "DONE" THEN s
    ELSE IF s.readRequest_.status = 410
    THEN [close(s) EXCEPT !.sessionID_ = "null"]
    ELSE IF s.readRequest_.status # 200
    THEN requestError_(s, TRUE)
    ELSE requestSuccess_(
            [s EXCEPT
                !.readCount_ = s.readCount_ + CountedBytes(s.readRequest_.responseText),
                !.delivered = s.delivered \o Base64UrlDecode(s.readRequest_.responseText)],
            TRUE)

\* An onWriteDone_ that notifies the callback before it counts the bytes.
onWriteDone_notifiesFirst(s) ==
    IF s.writeRequest_.readyState # "DONE" THEN s
    ELSE IF s.writeRequest_.status = 410
    THEN close(s)
    ELSE IF s.writeRequest_.status # 200
    THEN requestError_(s, FALSE)
    ELSE LET s0 == IF s.onWriteSuccess_ = "function"
                   THEN [s EXCEPT !.writeSuccess = s.writeCount_]
                   ELSE s
         IN  requestSuccess_(
                [s0 EXCEPT
                    !.writeBuffer_ = ack(s.writeBuffer_, s.lastWriteSize_),
                    !.writeCount_ = s.writeCount_ + s.lastWriteSize_],
                FALSE)

\* An onWriteDone_ that acks the buffer and leaves writeCount_ as it was.
onWriteDone_keepsCount(s) ==
    IF s.writeRequest_.readyState # "DONE" THEN s
    ELSE IF s.writeRequest_.status = 410
    THEN close(s)
    ELSE IF s.writeRequest_.status # 200
    THEN requestError_(s, FALSE)
    ELSE LET s1 == requestSuccess_(
                    [s EXCEPT
                        !.writeBuffer_ = ack(s.writeBuffer_, s.lastWriteSize_)],
                    FALSE)
         IN  IF s1.onWriteSuccess_ = "function"
             THEN [s1 EXCEPT !.writeSuccess = s1.writeCount_]
             ELSE s1

\* nassh.Stream.GoogleRelayXHR.prototype.onWriteDone_
onWriteDone_(s) ==
    IF s.writeRequest_.readyState # "DONE" THEN s
    ELSE IF s.writeRequest_.status = 410
    THEN close(s)
    ELSE IF s.writeRequest_.status # 200
    THEN requestError_(s, FALSE)
    ELSE LET s1 == requestSuccess_(
                    [s EXCEPT
                        !.writeBuffer_ = ack(s.writeBuffer_, s.lastWriteSize_),
                        !.writeCount_ = s.writeCount_ + s.lastWriteSize_],
                    FALSE)
         IN  IF s1.onWriteSuccess_ = "function"
             THEN [s1 EXCEPT !.writeSuccess = s1.writeCount_]
             ELSE s1

\* asyncOpen_'s onError.
onError(s) ==
    [s EXCEPT !.onComplete =
        Append(s.onComplete, [ok |-> FALSE, status |-> s.sessionRequest.status])]

\* An onReady that takes any finished request for a session.
onReady_anyStatus(s) ==
    IF s.sessionRequest.readyState # "DONE" THEN s
    ELSE LET s1 == resumeRead_([s EXCEPT !.sessionID_ = "sid"])
         IN  [s1 EXCEPT !.onComplete = Append(s1.onComplete, [ok |-> TRUE, status |-> -1])]

\* asyncOpen_'s onReady.
onReady(s) ==
    IF s.sessionRequest.readyState # "DONE" THEN s
    ELSE IF s.sessionRequest.status # 200 THEN onError(s)
    ELSE LET s1 == resumeRead_([s EXCEPT !.sessionID_ = "sid"])
         IN  [s1 EXCEPT !.onComplete = Append(s1.onComplete, [ok |-> TRUE, status |-> -1])]

\* A response: the request is done and has its status and text.
Done(r, status, text) ==
    [r EXCEPT !.readyState = "DONE", !.status = status, !.responseText = text]

\* The statuses a request opened with sid can end with: 200 from a relay that
\* knows the session, 410 from one that dropped it, 500 for any other
\* failure, and 0 for a network error, a timeout or an abort.
Statuses(s, sid) ==
    (IF sid = "sid" /\ ~s.gone THEN {200} ELSE {})
    \cup {410}
    \cup (IF s.timerSeq < MaxBackoffs THEN {500, 0} ELSE {})

\* Whether a request has failed since the last one answered 200, once a
\* request has ended with status.
Failing(s, status) == status \in {500, 0} \/ (s.failing /\ status # 200)

\* Whether the request that has ended with status is a transport error of an
\* established session whose stream is open: any status but 200 and 410.
Unanswered(s, status) ==
    status \in {500, 0} /\ s.sessionID_ # "null" /\ ~s.closed

XhrInit == xhr = GoogleRelayXHR

\* asyncOpen_: the /proxy request is sent.
AsyncOpen ==
    /\ ~xhr.closed
    /\ xhr.sessionRequest.readyState = "UNSENT"
    /\ xhr' = [xhr EXCEPT !.sessionRequest = Sent("null", 0, <<>>)]
    /\ UNCHANGED <<bufVars, pairVars, wsVars, pipeVars>>

\* The /proxy request ends: loadend, after error, timeout or abort when the
\* status is 0.
SessionLoadEnd(status) ==
    /\ xhr.sessionRequest.readyState = "OPENED"
    /\ LET s1 == [xhr EXCEPT !.sessionRequest = Done(@, status, <<>>)]
       IN  xhr' = onReady(IF status = 0 THEN onError(s1) ELSE s1)
    /\ UNCHANGED <<bufVars, pairVars, wsVars, pipeVars>>

\* The consumer writes the next n bytes of its stream.
AsyncWrite(n) ==
    /\ ~xhr.closed
    /\ xhr.accepted + n <= MaxOut
    /\ xhr' = asyncWrite([xhr EXCEPT !.accepted = xhr.accepted + n],
                         Stream(xhr.accepted, n))
    /\ UNCHANGED <<bufVars, pairVars, wsVars, pipeVars>>

\* The stream after its read request ended with status, a 200 carrying the
\* len bytes of the relay's stream that start at offset rcnt.  A status of 0
\* raises the error (timeout, abort) event and then loadend.
ReadEnds(s, status, len) ==
    LET text == Base64UrlEncode(Stream(s.readRequest_.cnt, len))
        s1 == [s EXCEPT
                 !.readRequest_ = Done(@, status, text),
                 !.gone = (s.gone \/ status = 410),
                 !.failing = Failing(s, status),
                 !.unanswered = @ \/ Unanswered(s, status)]
    IN  onReadReady_(IF status = 0 THEN requestError_(s1, TRUE) ELSE s1)

\* The read request ends.
ReadLoadEnd(status, len) ==
    /\ xhr.readRequest_.readyState = "OPENED"
    /\ status \in Statuses(xhr, xhr.readRequest_.sid)
    /\ status # 200 => len = 0
    /\ xhr.readRequest_.cnt + len <= MaxIn
    /\ xhr' = ReadEnds(xhr, status, len)
    /\ UNCHANGED <<bufVars, pairVars, wsVars, pipeVars>>

\* The stream after its write request ended with status; the relay that
\* answers 200 has taken the bytes of the request as those at offset wcnt.
WriteEnds(s, status) ==
    LET s1 == [s EXCEPT
                 !.writeRequest_ = Done(@, status, <<>>),
                 !.gone = (s.gone \/ status = 410),
                 !.failing = Failing(s, status),
                 !.unanswered = @ \/ Unanswered(s, status),
                 !.lastSent =
                     IF status = 200
                     THEN [wcnt |-> s.writeRequest_.cnt,
                           bytes |-> Base64UrlDecode(s.writeRequest_.data)]
                     ELSE @,
                 !.carried =
                     IF status = 200
                     THEN @ + Len(Base64UrlDecode(s.writeRequest_.data))
                     ELSE @]
    IN  onWriteDone_(IF status = 0 THEN requestError_(s1, FALSE) ELSE s1)

\* The write request ends.
WriteLoadEnd(status) ==
    /\ xhr.writeRequest_.readyState = "OPENED"
    /\ status \in Statuses(xhr, xhr.writeRequest_.sid)
    /\ xhr' = WriteEnds(xhr, status)
    /\ UNCHANGED <<bufVars, pairVars, wsVars, pipeVars>>

\* A backoff timer fires.
BackoffTimer(id) ==
    /\ id \in xhr.timers
    /\ xhr' = onBackoffExpired_([xhr EXCEPT !.timers = xhr.timers \ {id}])
    /\ UNCHANGED <<bufVars, pairVars, wsVars, pipeVars>>

\* A poll of a relay that has nothing to say ends: with a 200 and an empty
\* body, or with a failure.
PollEnds(status) ==
    /\ xhr.readRequest_.readyState = "OPENED"
    /\ status \in {500, 0} => xhr.timerSeq < MaxChain
    /\ xhr' = ReadEnds(xhr, status, 0)
    /\ UNCHANGED <<bufVars, pairVars, wsVars, pipeVars>>

XhrNext ==
    \/ AsyncOpen
    \/ \E status \in {200, 500, 0} : SessionLoadEnd(status)
    \/ \E n \in 0..MaxAsyncWrite : AsyncWrite(n)
    \/ \E status \in {200, 410, 500, 0}, len \in 0..MaxChunk : ReadLoadEnd(status, len)
    \/ \E status \in {200, 410, 500, 0} : WriteLoadEnd(status)
    \/ \E id \in xhr.timers : BackoffTimer(id)

\* Polls of an idle session that fail, back off and succeed.
BackoffNext ==
    \/ AsyncOpen
    \/ \E status \in {200, 500, 0} : SessionLoadEnd(status)
    \/ \E status \in {200, 500, 0} : PollEnds(status)
    \/ \E id \in xhr.timers : BackoffTimer(id)

\* The consumer writes to a stream whose session is open.
WriteToOpen(n) ==
    /\ xhr.sessionID_ # "null"
    /\ AsyncWrite(n)

\* A relay that answers every request with 200, and a consumer that writes
\* once the session is open.
SendNext ==
    \/ AsyncOpen
    \/ SessionLoadEnd(200)
    \/ \E n \in 1..MaxAsyncWrite : WriteToOpen(n)
    \/ \E len \in 0..MaxChunk : ReadLoadEnd(200, len)
    \/ WriteLoadEnd(200)

\* A relay that keeps the session and whose requests can fail, and a consumer
\* that writes once the session is open.
RetryNext ==
    \/ AsyncOpen
    \/ SessionLoadEnd(200)
    \/ \E n \in 1..MaxAsyncWrite : WriteToOpen(n)
    \/ \E status \in {200, 500, 0}, len \in 0..MaxChunk : ReadLoadEnd(status, len)
    \/ \E status \in {200, 500, 0} : WriteLoadEnd(status)
    \/ \E id \in xhr.timers : BackoffTimer(id)

\* ------------------------------------------------- the socket transport

\* Stream offsets, both ways, short of 2^24: those of sessions that have
\* been open long enough to carry that many bytes.
Carried == {16777200, 16777214}

\* A session that is open and idle after carrying n bytes each way: the
\* handshake succeeded, the first socket is open, everything written was
\* sent and acked, and no request failed since.
OpenSession(resume, report, n) ==
    [GoogleRelayWS(resume, report) EXCEPT
        !.sessionID_ = "sid",
        !.sessionRequest = Done(Sent("null", 0, <<>>), 200, <<>>),
        !.onComplete = <<[ok |-> TRUE, status |-> -1]>>,
        !.socket_ = 1,
        !.sockSeq = 1,
        !.readyState = 1,
        !.uri = [ack |-> 0, pos |-> 0, try |-> IF report THEN 1 ELSE 0],
        !.onWriteSuccess_ = "function",
        !.writeCount_ = n,
        !.readCount_ = n,
        !.base = n,
        !.sentUpTo = n,
        !.expectedAck_ = n % AckRange]

\* The stream of the specifications that do not run the socket transport.
WsInit == ws = GoogleRelayWS(TRUE, TRUE)

\* A stream just constructed, with the arguments its asyncOpen_ will get.
WsStart ==
    \E resume \in BOOLEAN, report \in BOOLEAN : ws = GoogleRelayWS(resume, report)

\* A long-lived session.
AckStart == \E n \in Carried : ws = OpenSession(TRUE, TRUE, n)

\* asyncOpen_: the /proxy request is sent.
WsAsyncOpen ==
    /\ ~ws.closed
    /\ ws.sessionRequest.readyState = "UNSENT"
    /\ ws' = [ws EXCEPT !.sessionRequest = Sent("null", 0, <<>>)]
    /\ UNCHANGED <<bufVars, pairVars, xhrVars, pipeVars>>

\* The /proxy request ends.
WsSessionLoadEnd(status) ==
    /\ ws.sessionRequest.readyState = "OPENED"
    /\ LET s1 == [ws EXCEPT !.sessionRequest = Done(@, status, <<>>)]
       IN  ws' = onReady(IF status = 0 THEN onError(s1) ELSE s1)
    /\ UNCHANGED <<bufVars, pairVars, xhrVars, pipeVars>>

\* The consumer writes the next n bytes of its stream.
WsAsyncWrite(n) ==
    /\ ~ws.closed
    /\ ws.accepted + n <= WsMaxOut
    /\ ws' = asyncWrite([ws EXCEPT !.accepted = ws.accepted + n],
                        Stream(ws.base + ws.accepted, n))
    /\ UNCHANGED <<bufVars, pairVars, xhrVars, pipeVars>>

\* The current socket connects: its readyState becomes 1 and its open
\* event is delivered.
SocketOpens ==
    /\ ws.socket_ # 0
    /\ ws.readyState = 0
    /\ ws' = onSocketOpen_([ws EXCEPT !.readyState = 1], ws.socket_)
    /\ UNCHANGED <<bufVars, pairVars, xhrVars, pipeVars>>

\* The stream after a frame of the current socket with ack header hdr and
\* the next len bytes of the relay's stream, elapsed ms after the last send.
FrameArrives(s, hdr, len, elapsed) ==
    onSocketData_(s, s.socket_, hdr,
                  Stream(s.base + Len(s.delivered), len), elapsed)

\* The relay sends a frame: it acks, modulo 2^24, some offset between what
\* the stream knows to be acked and what it has sent, and carries the next
\* len bytes for the client.
SocketData(acked_, len, elapsed) ==
    /\ ws.socket_ # 0
    /\ ws.readyState = 1
    /\ acked_ \in ws.writeCount_..ws.sentUpTo
    /\ Len(ws.delivered) + len <= WsMaxIn
    /\ ws' = FrameArrives(ws, acked_ % AckRange, len, elapsed)
    /\ UNCHANGED <<bufVars, pairVars, xhrVars, pipeVars>>

\* Headers that are not 24-bit numbers: the least one, and the greatest
\* unsigned 32-bit value that fits a signed 32-bit integer.
InvalidAcks == {AckRange, 2147483647}

\* The relay sends a frame whose header is not a 24-bit number.
SocketDataInvalid(hdr, len) ==
    /\ ws.socket_ # 0
    /\ ws.readyState = 1
    /\ Len(ws.delivered) + len <= WsMaxIn
    /\ ws' = FrameArrives(ws, hdr, len, 0)
    /\ UNCHANGED <<bufVars, pairVars, xhrVars, pipeVars>>

\* The current socket fails or is closed by the relay: its error or close
\* event is delivered.
SocketFails ==
    /\ ws.socket_ # 0
    /\ ws.timerSeq < WsMaxBackoffs
    /\ ws' = onSocketError_(ws, ws.socket_)
    /\ UNCHANGED <<bufVars, pairVars, xhrVars, pipeVars>>

\* A backoff timer fires.
WsBackoffTimer(id) ==
    /\ id \in ws.timers
    /\ ws' = onBackoffExpired_([ws EXCEPT !.timers = ws.timers \ {id}])
    /\ UNCHANGED <<bufVars, pairVars, xhrVars, pipeVars>>

\* A setTimeout(this.sendWrite_.bind(this), 0) fires.
WsSendTimer ==
    /\ ws.sendTimers > 0
    /\ ws' = sendWrite_([ws EXCEPT !.sendTimers = ws.sendTimers - 1])
    /\ UNCHANGED <<bufVars, pairVars, xhrVars, pipeVars>>

WsNext ==
    \/ WsAsyncOpen
    \/ \E status \in {200, 500, 0} : WsSessionLoadEnd(status)
    \/ \E n \in 0..WsMaxAsyncWrite : WsAsyncWrite(n)
    \/ SocketOpens
    \/ \E a \in ws.writeCount_..ws.sentUpTo, len \in 0..WsMaxChunk,
          elapsed \in Latencies : SocketData(a, len, elapsed)
    \/ \E hdr \in InvalidAcks, len \in 0..WsMaxChunk : SocketDataInvalid(hdr, len)
    \/ SocketFails
    \/ \E id \in ws.timers : WsBackoffTimer(id)
    \/ WsSendTimer

\* An open session whose socket stays up: writes, frames of the relay and
\* follow-up sends.
AckNext ==
    \/ \E n \in 1..WsMaxAsyncWrite : WsAsyncWrite(n)
    \/ \E a \in ws.writeCount_..ws.sentUpTo, len \in 0..WsMaxChunk,
          elapsed \in Latencies : SocketData(a, len, elapsed)
    \/ WsSendTimer

\* The latencies of a session's first sends, in ms.
EarlierLatencies == <<3, 1, 4, 1, 5, 9, 2, 6, 5>>

\* The numbers of sends, each acked and timed, that a session has behind it.
Sampled == {8, 9}

\* An open, idle session that has sent k frames and recorded the latency of
\* each: ackTimes_ holds them and ackTimesIndex_ is past them.
SampledSession(report, k) ==
    [OpenSession(TRUE, report, 0) EXCEPT
        !.ackTimes_ = [i \in 1..AckTimesLength |->
                          IF i <= k THEN EarlierLatencies[i] ELSE 0],
        !.ackTimesIndex_ = k,
        !.samples = k,
        !.frame = [@ EXCEPT !.n = k]]

LatencyStart ==
    \E report \in BOOLEAN, k \in Sampled : ws = SampledSession(report, k)

\* Date.now() - this.ackTime_ for the acks of this session, in ms.
AckLatencies == {0, 7}

\* A session whose sends are acked and timed: writes, frames of the relay,
\* follow-up sends, and the socket lost and made again.
LatencyNext ==
    \/ \E n \in 1..WsMaxAsyncWrite : WsAsyncWrite(n)
    \/ \E a \in ws.writeCount_..ws.sentUpTo, len \in 0..WsMaxChunk,
          elapsed \in AckLatencies : SocketData(a, len, elapsed)
    \/ WsSendTimer
    \/ SocketFails
    \/ \E id \in ws.timers : WsBackoffTimer(id)
    \/ SocketOpens

\* -------------------------------------------------------- worker pipeline

\* The largest value of the size option.
MaxSize == 2
\* The number of items the producer can give before it has no more.
MaxProduced == 4

\* nassh.WorkerPipeline.FINISHED, a value that is no item.
FINISHED == 0

\* new nassh.WorkerPipeline(producer, consumer, {size}). The items are
\* numbered from 1 in the order the producer gives them.
\*   running           run() has been called
\*   producerAt        where producerProcess_ is: "new", "calling" (waiting
\*                     for producer()), "sleeping" (setTimeout pending),
\*                     "resolved"
\*   consumerAt        the same for consumerProcess_
\*   producerCalls     number of calls of producer
\*   produced          number of items producer() has resolved with
\*   producerEnd       "FINISHED" or "rejected" once producer() has settled so
\*   consumed          the items passed to consumer, in order
\*   consumerRejected  a call of consumer has rejected
WorkerPipeline(size) ==
    [queue_ |-> <<>>,
     queueSize_ |-> size,
     halt_ |-> FALSE,
     producerFinished_ |-> FALSE,
     running |-> FALSE,
     producerAt |-> "new",
     consumerAt |-> "new",
     producerCalls |-> 0,
     produced |-> 0,
     producerEnd |-> "none",
     consumed |-> <<>>,
     consumerRejected |-> FALSE]

stop(p) == [p EXCEPT !.halt_ = TRUE]

\* main of producerProcess_ that calls producer whatever the queue holds.
producerProcess_main_neverSleeps(p) ==
    IF p.halt_
    THEN [p EXCEPT !.producerAt = "resolved"]
    ELSE [p EXCEPT !.producerAt = "calling", !.producerCalls = @ + 1]

\* main of producerProcess_.
producerProcess_main(p) ==
    IF p.halt_
    THEN [p EXCEPT !.producerAt = "resolved"]
    ELSE IF Len(p.queue_) < p.queueSize_
         THEN [p EXCEPT !.producerAt = "calling", !.producerCalls = @ + 1]
         ELSE [p EXCEPT !.producerAt = "sleeping"]

\* main of consumerProcess_.
consumerProcess_main(p) ==
    IF p.halt_
    THEN [p EXCEPT !.consumerAt = "resolved"]
    ELSE IF Len(p.queue_) # 0
         THEN [p EXCEPT !.consumed = Append(@, Head(p.queue_)),
                        !.queue_ = Tail(@),
                        !.consumerAt = "calling"]
         ELSE IF p.producerFinished_
              THEN [p EXCEPT !.consumerAt = "resolved"]
              ELSE [p EXCEPT !.consumerAt = "sleeping"]

\* run(): both processes start, the producer's first.
run(p) ==
    consumerProcess_main(producerProcess_main([p EXCEPT !.running = TRUE]))

\* The callback of producer().then in producerProcess_.
producerResult(p, result) ==
    IF result = FINISHED
    THEN [p EXCEPT !.producerAt = "resolved", !.producerEnd = "FINISHED"]
    ELSE producerProcess_main(
             [p EXCEPT !.queue_ = Append(@, result), !.produced = @ + 1])

\* A pipeline that is never run.
PipeInit == pipe = WorkerPipeline(MaxSize)

\* A pipeline of any size, as constructed.
PipeStart == \E size \in 1..MaxSize : pipe = WorkerPipeline(size)

Run ==
    /\ ~pipe.running
    /\ pipe' = run(pipe)
    /\ UNCHANGED <<bufVars, pairVars, xhrVars, wsVars>>

Stop ==
    /\ ~pipe.halt_
    /\ pipe' = stop(pipe)
    /\ UNCHANGED <<bufVars, pairVars, xhrVars, wsVars>>

\* producer() resolves, with the next item or with FINISHED.
ProducerResolves(finished) ==
    /\ pipe.producerAt = "calling"
    /\ finished \/ pipe.produced < MaxProduced
    /\ pipe' = producerResult(pipe, IF finished THEN FINISHED
                                                ELSE pipe.produced + 1)
    /\ UNCHANGED <<bufVars, pairVars, xhrVars, wsVars>>

\* producer() rejects: .catch(resolve).
ProducerRejects ==
    /\ pipe.producerAt = "calling"
    /\ pipe' = [pipe EXCEPT !.producerAt = "resolved",
                            !.producerEnd = "rejected"]
    /\ UNCHANGED <<bufVars, pairVars, xhrVars, wsVars>>

ProducerSettles ==
    \/ \E finished \in BOOLEAN : ProducerResolves(finished)
    \/ ProducerRejects

\* The timer of setTimeout(main, producerDelay_) fires.
ProducerTimer ==
    /\ pipe.producerAt = "sleeping"
    /\ pipe' = producerProcess_main(pipe)
    /\ UNCHANGED <<bufVars, pairVars, xhrVars, wsVars>>

\* The callback run() has put on producerProcess_().
SetFinished ==
    /\ pipe.producerAt = "resolved"
    /\ ~pipe.producerFinished_
    /\ pipe' = [pipe EXCEPT !.producerFinished_ = TRUE]
    /\ UNCHANGED <<bufVars, pairVars, xhrVars, wsVars>>

\* consumer(item) resolves: .then(main).
ConsumerResolves ==
    /\ pipe.consumerAt = "calling"
    /\ pipe' = consumerProcess_main(pipe)
    /\ UNCHANGED <<bufVars, pairVars, xhrVars, wsVars>>

\* consumer(item) rejects: .catch(resolve).
ConsumerRejects ==
    /\ pipe.consumerAt = "calling"
    /\ pipe' = [pipe EXCEPT !.consumerAt = "resolved",
                            !.consumerRejected = TRUE]
    /\ UNCHANGED <<bufVars, pairVars, xhrVars, wsVars>>

ConsumerSettles ==
    \/ ConsumerResolves
    \/ ConsumerRejects

\* The timer of setTimeout(main, consumerDelay_) fires.
ConsumerTimer ==
    /\ pipe.consumerAt = "sleeping"
    /\ pipe' = consumerProcess_main(pipe)
    /\ UNCHANGED <<bufVars, pairVars, xhrVars, wsVars>>

PipeNext ==
    \/ Run
    \/ Stop
    \/ ProducerSettles
    \/ ProducerTimer
    \/ SetFinished
    \/ ConsumerSettles
    \/ ConsumerTimer

\* A run uses a stream of one of the two classes: the polling stream acts
\* while the socket stream is as constructed, and the other way round.
PollingStep ==
    /\ ws = GoogleRelayWS(TRUE, TRUE)
    /\ XhrNext

SocketStep ==
    /\ xhr = GoogleRelayXHR
    /\ WsNext

RelayNext ==
    \/ PollingStep
    \/ SocketStep

\* --------------------------------------------------------- specifications

Init == BufInit /\ PairInit /\ XhrInit /\ WsInit /\ PipeInit

\* The initial states of the specifications of the socket transport.
InitWS == BufInit /\ PairInit /\ XhrInit /\ WsStart /\ PipeInit

\* The initial states of the specification of long-lived sessions.
InitAck == BufInit /\ PairInit /\ XhrInit /\ AckStart /\ PipeInit

\* One buffer, any calls.
SpecBuf == Init /\ [][BufNext]_vars

\* The auto-ack buffer beside the manual-ack one.
SpecAuto == Init /\ [][PairNext]_vars

\* The polling transport.
SpecXHR == Init /\ [][XhrNext]_vars

\* The polling transport through long runs of failed polls.
SpecBackoff == Init /\ [][BackoffNext]_vars

\* The polling transport with a relay that never fails.
SpecSend == Init /\ [][SendNext]_vars

\* The socket transport with its relay, consumer and timers.
SpecWS == InitWS /\ [][WsNext]_vars

\* The acks and sends of a session whose counts pass 2^24.
SpecAck == InitAck /\ [][AckNext]_vars

\* The latency samples of a session that has recorded some already.
InitLatency == BufInit /\ PairInit /\ XhrInit /\ LatencyStart /\ PipeInit

SpecLatency == InitLatency /\ [][LatencyNext]_vars

\* The same where every setTimeout(sendWrite_, 0) that is pending fires;
\* nothing is assumed of the relay's frames or of the consumer.
SpecAckFair == SpecAck /\ WF_vars(WsSendTimer)

\* Either transport, with its relay, consumer and timers.
SpecRelay == Init /\ [][RelayNext]_vars

\* Either transport, when every backoff timer that is set and not cleared
\* fires: setTimeout runs its callback.
PollingTimerFires == \E id \in xhr.timers : BackoffTimer(id)

SocketTimerFires == \E id \in ws.timers : WsBackoffTimer(id)

SpecRelayFair ==
    SpecRelay /\ WF_vars(PollingTimerFires) /\ WF_vars(SocketTimerFires)

\* The polling transport with requests that fail and are tried again.
SpecRetry == Init /\ [][RetryNext]_vars

\* The same where every backoff timer that is set and not cleared fires.
SpecRetryFair == SpecRetry /\ WF_vars(PollingTimerFires)

\* A worker pipeline with its producer, its consumer and the caller of
\* run() and stop().
InitPipe == BufInit /\ PairInit /\ XhrInit /\ WsInit /\ PipeStart

SpecPipe == InitPipe /\ [][PipeNext]_vars

\* The same where timers fire, the promises of producer() and consumer()
\* settle, and a callback put on a resolved promise runs.
SpecPipeFair ==
    /\ SpecPipe
    /\ WF_vars(ProducerSettles)
    /\ WF_vars(ConsumerSettles)
    /\ WF_vars(ProducerTimer)
    /\ WF_vars(ConsumerTimer)
    /\ WF_vars(SetFinished)

\* ------------------------------------------------------ buffer properties

\* The views stay inside the storage, free_ starts where queued_ ends, and
\* the queued bytes are the most recently written ones, oldest first.
BufferShape ==
    /\ buf.queued_.off + buf.queued_.len = buf.free_.off
    /\ buf.free_.off + buf.free_.len = Capacity(buf)
    /\ Queued(buf) = Stream(written - buf.queued_.len, buf.queued_.len)
    /\ acked = written - buf.queued_.len

\* The unread bytes of a buffer whose readCount_ lies inside queued_.
Unread(b) == SubSeq(Queued(b), b.readCount_ + 1, b.queued_.len)

\* ret is empty, or the part of q that starts at index rc.
StartsAt(q, rc, ret) ==
    \/ ret = <<>>
    \/ /\ 0 <= rc
       /\ rc + Len(ret) <= Len(q)
       /\ ret = SubSeq(q, rc + 1, rc + Len(ret))

\* C1: on a manual-ack buffer whose acks never exceeded readCount_, the
\* concatenation of the byte sequences returned by read is a prefix of the
\* concatenation of the byte sequences written, whatever writes reallocated
\* or compacted the storage in between.
C1_ReadsArePrefixOfWrites ==
    (~buf.autoack_ /\ ~overAcked) =>
        /\ Len(readOut) = returned
        /\ IsPrefix(readOut, Stream(0, written))

\* C1 witness: every byte written has been read back, after one write
\* reallocated the storage and another compacted it while bytes were unread.
C1_Witness ==
    /\ ~buf.autoack_ /\ ~overAcked
    /\ relocated = {"grow", "compact"}
    /\ last.op = "read" /\ Len(last.ret) > 0
    /\ written > BaseSize
    /\ readOut = Stream(0, written)

\* C4 as stated: 0 <= readCursor <= len(queued) <= capacity(storage) after
\* any sequence of calls, acks of more than has been read included.
C4_CursorWithinQueued ==
    /\ 0 <= buf.readCount_
    /\ buf.readCount_ <= buf.queued_.len
    /\ buf.queued_.len <= Capacity(buf)

\* C5 as stated: queuedByteCount() is the number of bytes written minus the
\* number of bytes acked.
C5_QueuedIsWrittenMinusAcked ==
    /\ getQueuedBytes(buf) = written - acked
    /\ getQueuedBytes(buf) >= 0

\* C5 amended: queuedByteCount() is the number of bytes written, minus the
\* number of bytes returned by read, minus the unread count discarded by the
\* acks that reset the buffer; it is never negative.
C5_QueuedIsWrittenMinusRead ==
    /\ getQueuedBytes(buf) = written - returned - dropped
    /\ getQueuedBytes(buf) >= 0

\* C5 witness: bytes were written, some were read, fewer were acked, and
\* unread bytes remain after the ack.
C5_Witness ==
    /\ last.op = "ack" /\ last.n > 0
    /\ 0 < acked /\ acked < returned
    /\ getQueuedBytes(buf) > 0

\* C6: ack(n) with n >= len(queued), the empty buffer included, leaves the
\* buffer empty: len(queued) = 0, readCursor = 0, queuedByteCount() = 0.
C6_AckAllEmpties ==
    (last.op = "ack" /\ last.n >= last.qlen) =>
        /\ buf.queued_.len = 0
        /\ buf.readCount_ = 0
        /\ getQueuedBytes(buf) = 0

\* C6 witness: an ack of more bytes than were queued, on a buffer that held
\* read and unread bytes.
C6_Witness ==
    /\ last.op = "ack"
    /\ last.n > last.qlen
    /\ 0 < last.rc /\ last.rc < last.qlen
    /\ buf.queued_.len = 0

\* C7 as stated: on a manual-ack buffer read(n) returns exactly
\* min(n, queuedByteCount()) bytes starting at readCursor, decreases
\* queuedByteCount() by the number returned and leaves len(queued) and the
\* capacity unchanged.
C7_ReadReturnsMinOfUnread ==
    [][(last'.op = "read" /\ ~buf.autoack_) =>
        /\ Len(last'.ret) = Min(last'.n, getQueuedBytes(buf))
        /\ StartsAt(Queued(buf), buf.readCount_, last'.ret)
        /\ getQueuedBytes(buf') = getQueuedBytes(buf) - Len(last'.ret)
        /\ buf'.queued_.len = buf.queued_.len
        /\ Capacity(buf') = Capacity(buf)]_vars

\* C8: ack(n) with n <= readCursor and n < len(queued) reduces len(queued)
\* and readCursor by exactly n and leaves queuedByteCount() and the unread
\* bytes unchanged.
C8_PartialAckKeepsUnread ==
    [][(last'.op = "ack" /\ last'.n <= buf.readCount_ /\ last'.n < buf.queued_.len) =>
        /\ buf'.queued_.len = buf.queued_.len - last'.n
        /\ buf'.readCount_ = buf.readCount_ - last'.n
        /\ getQueuedBytes(buf') = getQueuedBytes(buf)
        /\ Unread(buf') = Unread(buf)]_vars

\* C8 witness: an ack of some, not all, of the bytes read, with unread bytes
\* behind them.
C8_Witness ==
    /\ last.op = "ack"
    /\ 0 < last.n /\ last.n < last.rc /\ last.rc < last.qlen
    /\ buf.queued_.len = last.qlen - last.n

\* The smallest multiple of GrowUnit that is >= total.
AlignedAtLeast(total) ==
    CHOOSE c \in total..(total + GrowUnit) :
        c % GrowUnit = 0 /\ \A d \in total..(c - 1) : d % GrowUnit # 0

\* C10 as stated: a write that finds len(queued)+len(bytes) larger than the
\* capacity makes the capacity the smallest multiple of the growth unit that
\* is >= len(queued)+len(bytes), with the queued bytes at the front.
C10_GrowsToAlignedAtLeast ==
    [][(last'.op = "write" /\ buf.queued_.len + last'.n > Capacity(buf)) =>
        /\ Capacity(buf') = AlignedAtLeast(buf.queued_.len + last'.n)
        /\ buf'.queued_.off = 0
        /\ Queued(buf') = Queued(buf) \o Stream(written, last'.n)]_vars

\* C10 amended: such a write makes the capacity the smallest multiple of the
\* growth unit that is strictly greater than len(queued)+len(bytes) (one unit
\* more than the claim says when the sum is itself a multiple), with the
\* queued bytes at the front of the new storage.
C10_GrowsToAlignedAbove ==
    [][(last'.op = "write" /\ buf.queued_.len + last'.n > Capacity(buf)) =>
        LET total == buf.queued_.len + last'.n
        IN  /\ Capacity(buf') % GrowUnit = 0
            /\ total < Capacity(buf')
            /\ Capacity(buf') <= total + GrowUnit
            /\ buf'.queued_.off = 0
            /\ Queued(buf') = Queued(buf) \o Stream(written, last'.n)]_vars

\* C10 witness: a write that outgrew the storage while bytes were queued,
\* the sum being a multiple of the growth unit.
C10_Witness ==
    /\ last.op = "write"
    /\ last.qlen > 0
    /\ last.qlen + last.n > last.cap
    /\ (last.qlen + last.n) % GrowUnit = 0
    /\ Capacity(buf) = last.qlen + last.n + GrowUnit

\* The capacity after an ack of everything queued: BaseSize when the capacity
\* was at least ShrinkSize, otherwise as before.
AfterFullAck(cap) == IF cap >= ShrinkSize THEN BaseSize ELSE cap

\* C11 as stated: an ack(n) with n >= len(queued) shrinks the storage to the
\* base capacity when the capacity is at least 4 times the base and leaves it
\* otherwise; read and partial ack never change the capacity; write never
\* lowers it.
C11_OnlyFullAckShrinks ==
    [][/\ (last'.op = "ack" /\ last'.n >= buf.queued_.len)
            => Capacity(buf') = AfterFullAck(Capacity(buf))
       /\ (last'.op = "ack" /\ last'.n < buf.queued_.len)
            => Capacity(buf') = Capacity(buf)
       /\ last'.op = "read" => Capacity(buf') = Capacity(buf)
       /\ last'.op = "write" => Capacity(buf') >= Capacity(buf)]_vars

\* C11 amended: as stated, but a read leaves the capacity alone only on a
\* manual-ack buffer; on an auto-ack buffer a read that returns everything
\* queued is an ack of everything queued and shrinks the storage like one.
C11_OnlyFullAckOrAutoReadShrinks ==
    [][/\ (last'.op = "ack" /\ last'.n >= buf.queued_.len)
            => Capacity(buf') = AfterFullAck(Capacity(buf))
       /\ (last'.op = "ack" /\ last'.n < buf.queued_.len)
            => Capacity(buf') = Capacity(buf)
       /\ (last'.op = "read" /\ ~buf.autoack_)
            => Capacity(buf') = Capacity(buf)
       /\ (last'.op = "read" /\ buf.autoack_)
            => Capacity(buf') = IF Len(last'.ret) >= buf.queued_.len
                                THEN AfterFullAck(Capacity(buf))
                                ELSE Capacity(buf)
       /\ last'.op = "write" => Capacity(buf') >= Capacity(buf)]_vars

\* C11 witness: an ack of everything queued, made when the capacity was
\* ShrinkSize, left a storage of BaseSize.
C11_Witness ==
    /\ last.op = "ack"
    /\ last.qlen > 0
    /\ last.n >= last.qlen
    /\ last.cap = ShrinkSize
    /\ Capacity(buf) = BaseSize

\* ------------------------------------------- auto-ack and read-then-ack

\* C9: for every sequence of write and read(n) calls, an auto-ack buffer and
\* a manual-ack buffer whose every read(n) is followed at once by ack(n)
\* return the same bytes from every read and have the same number of queued
\* bytes after every step; after every read the auto-ack buffer's queued
\* region is as long as its number of queued bytes: nothing read is retained.
C9_AutoAckIsReadThenAck ==
    /\ pairLast.aret = pairLast.mret
    /\ getQueuedBytes(autoBuf) = getQueuedBytes(manBuf)
    /\ pairLast.op = "read" => autoBuf.queued_.len = getQueuedBytes(autoBuf)

\* C9 witness: after writes that made the storage grow, a read of some but
\* not all of the queued bytes returned as many bytes as asked.
C9_Witness ==
    /\ pairLast.op = "read"
    /\ pairLast.n > 0
    /\ Len(pairLast.aret) = pairLast.n
    /\ getQueuedBytes(autoBuf) > 0
    /\ autoBuf.queued_.off > 0
    /\ Capacity(autoBuf) > BaseSize
    /\ pairWritten = MaxTotal

\* ------------------------------------------------- the polling transport

\* C2: every write request answered 200 that was issued with wcnt = w carried
\* exactly the bytes at offsets w .. w+len-1 of the concatenation of the
\* asyncWrite inputs.
C2_SuccessfulWriteCarriesBytesAtWcnt ==
    xhr.lastSent.bytes = Stream(xhr.lastSent.wcnt, Len(xhr.lastSent.bytes))

\* What the read side keeps: readCount_ is the number of bytes delivered, the
\* bytes delivered are the start of the relay's stream, and a read request in
\* flight asked for the offset that follows them.
ReadInStep(s) ==
    /\ s.readCount_ = Len(s.delivered)
    /\ s.delivered = Stream(0, Len(s.delivered))
    /\ isRequestBusy_(s.readRequest_) => s.readRequest_.cnt = Len(s.delivered)

\* A step in which the read request ended with a status other than 200.
ReadFailed ==
    /\ xhr.readRequest_.readyState = "OPENED"
    /\ xhr'.readRequest_.readyState = "DONE"
    /\ xhr'.readRequest_.status # 200

\* C3: every read request is issued with rcnt equal to the number of decoded
\* bytes delivered to the consumer so far, a read completion that fails
\* neither delivers data nor changes readCount_, and so the consumer receives
\* the relay's bytes once each and in order.
C3_ReadsDeliverRelayStreamOnce ==
    [][/\ ReadInStep(xhr')
       /\ ReadFailed => /\ xhr'.delivered = xhr.delivered
                        /\ xhr'.readCount_ = xhr.readCount_]_vars

\* C3 witness: with nothing written, so that every backoff came from a failed
\* read, all the backoffs of the run have happened, the consumer has all
\* the relay's bytes and the next read asks for the offset after them.
C3_Witness ==
    /\ xhr.accepted = 0
    /\ xhr.timerSeq = MaxBackoffs
    /\ Len(xhr.delivered) = MaxIn
    /\ xhr.delivered = Stream(0, MaxIn)
    /\ isRequestBusy_(xhr.readRequest_)
    /\ xhr.readRequest_.cnt = MaxIn

\* ------------------------------------------------------------- backoff

\* The stream has scheduled a backoff of ms milliseconds and has no request
\* in the making.
BackingOff(s, ms) ==
    /\ s.backoffMS_ = ms
    /\ s.backoffTimeout_ # 0
    /\ s.timers = {s.backoffTimeout_}

\* The stream has no backoff left: the duration is 0 and no timer is pending.
BackoffCleared(s) ==
    /\ s.backoffMS_ = 0
    /\ s.backoffTimeout_ = 0
    /\ s.timers = {}

\* sendWrite_ has run with nothing in its way: a write request is in flight
\* or nothing is unread in the outbound buffer.
WriteTried(s) ==
    isRequestBusy_(s.writeRequest_) \/ getQueuedBytes(s.writeBuffer_) = 0

\* resumeRead_ has run with nothing in its way: a read request for the
\* current readCount_ is in flight.
ReadTried(s) ==
    isRequestBusy_(s.readRequest_) /\ s.readRequest_.cnt = s.readCount_

\* The session has no backoff and no timer.
Healthy(s) == s.sessionID_ # "null" /\ s.backoffTimeout_ = 0 /\ s.timers = {}

\* C12: in a session with backoff duration 0 and no timer a request error
\* schedules a backoff of 1 ms, and an error that arrives after that timer
\* fired, with no success in between, schedules 15 ms; a request success
\* sets the duration to 0, leaves no timer and at once retries: the read
\* after a read success, the write after a write success, both when a timer
\* was pending.
C12_BackoffStartsAndResets ==
    /\ \A status \in {500, 0} :
        /\ (Healthy(xhr) /\ isRequestBusy_(xhr.readRequest_)) =>
            /\ xhr.backoffMS_ = 0 => BackingOff(ReadEnds(xhr, status, 0), 1)
            /\ xhr.backoffMS_ = 1 => BackingOff(ReadEnds(xhr, status, 0), 15)
        /\ (Healthy(xhr) /\ isRequestBusy_(xhr.writeRequest_)) =>
            /\ xhr.backoffMS_ = 0 => BackingOff(WriteEnds(xhr, status), 1)
            /\ xhr.backoffMS_ = 1 => BackingOff(WriteEnds(xhr, status), 15)
    /\ isRequestBusy_(xhr.readRequest_) =>
        \A len \in 0..MaxChunk :
            LET t == ReadEnds(xhr, 200, len)
            IN  /\ BackoffCleared(t)
                /\ ReadTried(t)
                /\ xhr.backoffTimeout_ # 0 => WriteTried(t)
    /\ isRequestBusy_(xhr.writeRequest_) =>
        LET t == WriteEnds(xhr, 200)
        IN  /\ BackoffCleared(t)
            /\ WriteTried(t)
            /\ xhr.backoffTimeout_ # 0 => ReadTried(t)

\* C12 witness: the second error in a row has scheduled 15 ms while the
\* other request, sent when the first timer fired, is still in flight.
C12_Witness ==
    /\ BackingOff(xhr, 15)
    /\ xhr.failing
    /\ xhr.readRequest_.readyState = "DONE"
    /\ xhr.readRequest_.status = 500
    /\ isRequestBusy_(xhr.writeRequest_)

\* C13: whatever the number of request errors in a row, a scheduled backoff
\* lasts from 1 to 10000 ms: each error schedules v = previous * 2 + 13 (1
\* after a duration of 0), or 10000 - (v mod 9000) when v is over 10000; and
\* the duration is 0 only when no request has failed since the last success.
C13_BackoffWithinOneToTenThousand ==
    [][/\ xhr'.timerSeq # xhr.timerSeq =>
            LET v == xhr.backoffMS_ * 2 + 13
            IN  /\ xhr'.backoffMS_ =
                     IF xhr.backoffMS_ = 0 THEN 1
                     ELSE IF v > 10000 THEN 10000 - (v % 9000) ELSE v
                /\ 1 <= xhr'.backoffMS_
                /\ xhr'.backoffMS_ <= 10000
                /\ xhr'.backoffTimeout_ # 0
       /\ xhr'.backoffTimeout_ # 0 => (1 <= xhr'.backoffMS_ /\ xhr'.backoffMS_ <= 10000)
       /\ xhr'.backoffMS_ = 0 => ~xhr'.failing]_vars

\* C13 witness: the eleventh error in a row came at 7155 ms, for which
\* v = 14323, and scheduled 10000 - 5323 = 4677 ms.
C13_Witness ==
    /\ BackingOff(xhr, 4677)
    /\ xhr.failing
    /\ xhr.timerSeq >= 11

\* -------------------------------------------------- sending in pieces

\* The bytes the write request was opened with.
WriteData(s) == Base64UrlDecode(s.writeRequest_.data)

\* What a sending stream keeps when no request ever fails: a write request in
\* flight was opened with the current writeCount_ and carries from 1 to
\* maxMessageLength bytes, those of the consumer's stream at that offset; the
\* outbound buffer holds the bytes from that offset on; and with no write
\* request in flight everything written has been sent.
SendsInOrder(s) ==
    /\ s.writeBuffer_.queued_.len = s.accepted - s.writeCount_
    /\ isRequestBusy_(s.writeRequest_) =>
        /\ s.writeRequest_.cnt = s.writeCount_
        /\ 1 <= s.lastWriteSize_
        /\ s.lastWriteSize_ <= XhrMaxMessageLength
        /\ WriteData(s) = Stream(s.writeCount_, s.lastWriteSize_)
        /\ Queued(s.writeBuffer_) = Stream(s.writeCount_, s.accepted - s.writeCount_)
    /\ ~isRequestBusy_(s.writeRequest_) => s.writeCount_ = s.accepted

\* C15: with an open session and only successful completions, what asyncWrite
\* is given on an idle session goes out as consecutive write requests of at
\* most maxMessageLength bytes, one at a time, each with wcnt larger than the
\* one before by the size of the one before; when a request is acknowledged
\* the outbound buffer holds the bytes not yet acknowledged and the next
\* request carries the first maxMessageLength of them, or all if fewer.
C15_WritesGoOutInConsecutivePieces ==
    [][/\ SendsInOrder(xhr')
       /\ xhr'.writeCount_ # xhr.writeCount_ =>
            /\ xhr'.writeCount_ = xhr.writeCount_ + xhr.lastWriteSize_
            /\ xhr'.lastSent = [wcnt |-> xhr.writeCount_,
                                bytes |-> Stream(xhr.writeCount_, xhr.lastWriteSize_)]
            /\ xhr'.writeBuffer_.queued_.len = xhr.accepted - xhr'.writeCount_
            /\ xhr'.accepted > xhr'.writeCount_ =>
                /\ isRequestBusy_(xhr'.writeRequest_)
                /\ xhr'.lastWriteSize_ =
                      Min(XhrMaxMessageLength, xhr'.accepted - xhr'.writeCount_)
       /\ (xhr'.accepted # xhr.accepted /\ ~isRequestBusy_(xhr.writeRequest_)) =>
            /\ isRequestBusy_(xhr'.writeRequest_)
            /\ xhr'.lastWriteSize_ =
                  Min(XhrMaxMessageLength, xhr'.accepted - xhr.accepted)]_vars

\* C15 witness: one asyncWrite of maxMessageLength + 1 bytes on an idle
\* session; the first request, of maxMessageLength bytes, was acknowledged,
\* the buffer holds the 1 byte left and the second request carries it.
C15_Witness ==
    /\ xhr.accepted = XhrMaxMessageLength + 1
    /\ xhr.lastSent = [wcnt |-> 0, bytes |-> Stream(0, XhrMaxMessageLength)]
    /\ xhr.writeCount_ = XhrMaxMessageLength
    /\ xhr.writeBuffer_.queued_.len = 1
    /\ isRequestBusy_(xhr.writeRequest_)
    /\ xhr.writeRequest_.cnt = XhrMaxMessageLength
    /\ WriteData(xhr) = Stream(XhrMaxMessageLength, 1)

\* ------------------------------------------------- requests in flight

\* C16: under any interleaving of asyncWrite calls, request completions,
\* request errors and timer firings, at most one read request and at most one
\* write request are in flight: resumeRead_ and sendWrite_ never open a
\* request that is still in flight, and leave one that is as it is.
C16_NoRequestReopenedInFlight ==
    /\ ~xhr.overlapped
    /\ isRequestBusy_(xhr.readRequest_) =>
            resumeRead_(xhr).readRequest_ = xhr.readRequest_
    /\ isRequestBusy_(xhr.writeRequest_) =>
            /\ sendWrite_(xhr).writeRequest_ = xhr.writeRequest_
            /\ sendWrite_(xhr).writeBuffer_ = xhr.writeBuffer_

\* C16 witness: after a backoff, with more to send, a read and a write are
\* both in flight and no timer is pending, so that only the busy checks keep
\* resumeRead_ and sendWrite_ from opening them again.
C16_Witness ==
    /\ isRequestBusy_(xhr.readRequest_)
    /\ isRequestBusy_(xhr.writeRequest_)
    /\ getQueuedBytes(xhr.writeBuffer_) > 0
    /\ xhr.backoffTimeout_ = 0
    /\ xhr.timerSeq > 0

\* ---------------------------------------------------- the session gone

\* A step in which the read or the write request ended with status.
RequestEndedWith(status) ==
    \/ /\ xhr.readRequest_.readyState = "OPENED"
       /\ xhr'.readRequest_.readyState = "DONE"
       /\ xhr'.readRequest_.status = status
    \/ /\ xhr.writeRequest_.readyState = "OPENED"
       /\ xhr'.writeRequest_.readyState = "DONE"
       /\ xhr'.writeRequest_.status = status

\* A step in which a read or a write request is issued.
RequestIssued ==
    \/ ~isRequestBusy_(xhr.readRequest_) /\ isRequestBusy_(xhr'.readRequest_)
    \/ ~isRequestBusy_(xhr.writeRequest_) /\ isRequestBusy_(xhr'.writeRequest_)

\* C18: a read or a write completion with status 410 closes the stream,
\* clears sessionID_ and schedules no backoff; and once the stream was closed
\* for a 410 no backoff timer is scheduled and no read or write request is
\* issued, whatever timer was pending or request in flight at that time.
C18_GoneEndsTheSession ==
    [][/\ RequestEndedWith(410) =>
            /\ xhr'.closed
            /\ xhr'.sessionID_ = "null"
            /\ xhr'.timerSeq = xhr.timerSeq
       /\ (xhr.gone /\ xhr.closed) =>
            /\ xhr'.timerSeq = xhr.timerSeq
            /\ ~RequestIssued]_vars

\* --------------------------------------------------- a failed handshake

\* C19: when the handshake request ends with a status other than 200, or
\* with a network error, an abort or a timeout, onComplete is given false
\* with that status, sessionID_ stays null, no read request is issued, no
\* backoff timer is scheduled, and the handshake request is not sent again.
C19_FailedHandshakeOpensNothing ==
    [][/\ (xhr'.sessionRequest.readyState = "DONE" /\ xhr'.sessionRequest.status # 200) =>
            /\ xhr'.sessionID_ = "null"
            /\ xhr'.readRequest_.readyState = "UNSENT"
            /\ xhr'.timerSeq = 0
            /\ xhr'.timers = {}
            /\ xhr'.onComplete # <<>>
            /\ \A i \in 1..Len(xhr'.onComplete) :
                    xhr'.onComplete[i] =
                        [ok |-> FALSE, status |-> xhr'.sessionRequest.status]
       /\ xhr.sessionRequest.readyState = "DONE" =>
            /\ xhr'.sessionRequest = xhr.sessionRequest
            /\ xhr'.onComplete = xhr.onComplete]_vars

\* C19 witness: the handshake ended with 500, and the consumer wrote all the
\* same; the write request that went out without a session has failed.
C19_Witness ==
    /\ xhr.sessionRequest.readyState = "DONE"
    /\ xhr.sessionRequest.status = 500
    /\ xhr.onComplete = <<[ok |-> FALSE, status |-> 500]>>
    /\ xhr.writeRequest_.readyState = "DONE"
    /\ xhr.writeRequest_.status = 500
    /\ xhr.sessionID_ = "null"

\* ------------------------------------------------------ the socket's acks

\* Ack headers tried on a state: small ones, the largest, and those of the
\* offsets at and after writeCount_.
TestAcks(s) ==
    {0, 1, 20, AckRange - 1}
        \cup {(s.writeCount_ + k) % AckRange : k \in 0..WsMaxOut}

\* seq without its first n elements, or empty when it has no more than n.
DropFirst(seq, n) == SubSeq(seq, Min(n, Len(seq)) + 1, Len(seq))

\* C14: for every inbound frame whose ack header a is a 24-bit number, the
\* outbound buffer is acked by delta = (a - writeCount) mod 2^24, which is
\* in 0 .. 2^24 - 1, and writeCount advances by delta, so that afterwards
\* writeCount mod 2^24 = a; writeCount = 16777200 and a = 20 give delta 36,
\* and a = writeCount mod 2^24 releases nothing and leaves writeCount.
C14_AckDeltaIsModulo24Bits ==
    ws.socket_ # 0 =>
        \A hdr \in TestAcks(ws) :
            LET s2 == onSocketData_(ws, ws.socket_, hdr, <<>>, 1)
                delta == s2.writeCount_ - ws.writeCount_
            IN  /\ delta \in 0..(AckRange - 1)
                /\ s2.writeCount_ % AckRange = hdr
                /\ Queued(s2.writeBuffer_) = DropFirst(Queued(ws.writeBuffer_), delta)
                /\ (ws.writeCount_ = 16777200 /\ hdr = 20) => delta = 36
                /\ hdr = ws.writeCount_ % AckRange =>
                        /\ delta = 0
                        /\ s2.writeCount_ = ws.writeCount_
                        /\ Queued(s2.writeBuffer_) = Queued(ws.writeBuffer_)

\* C14 witness: a session that had carried 2^24 - 2 bytes has sent three
\* more in two frames, and the relay's acks 0 and 1 have taken writeCount_
\* past 2^24 and emptied the buffer.
C14_Witness ==
    /\ ws.base = 16777214
    /\ ws.frame.n = 2
    /\ ws.writeCount_ = 16777217
    /\ ws.writeCount_ % AckRange = 1
    /\ Queued(ws.writeBuffer_) = <<>>

\* ------------------------------------------- frames with an invalid ack

\* The session was opened and its id has been cleared since.
Invalidated(s) ==
    /\ s.sessionRequest.readyState = "DONE"
    /\ s.sessionRequest.status = 200
    /\ s.sessionID_ = "null"

\* Every frame with an invalid header that can arrive in s closes the
\* stream, clears sessionID_ and changes nothing else.
InvalidFrameOnlyCloses(s) ==
    (s.socket_ # 0 /\ s.readyState = 1) =>
        \A hdr \in InvalidAcks, len \in 0..WsMaxChunk :
            FrameArrives(s, hdr, len, 1) =
                [s EXCEPT !.closed = TRUE, !.sessionID_ = "null"]

\* C20: a frame whose ack header exceeds 0xffffff closes the stream and
\* clears sessionID_ and has no other effect: the outbound buffer,
\* writeCount_ and readCount_ are unchanged, no payload is delivered, no
\* success is reported, and afterwards no socket is opened and no backoff
\* timer is set for that session.
C20_InvalidAckOnlyEndsTheSession ==
    [][/\ InvalidFrameOnlyCloses(ws)
       /\ InvalidFrameOnlyCloses(ws')
       /\ Invalidated(ws) =>
            /\ Invalidated(ws')
            /\ ws'.closed
            /\ ws'.sockSeq = ws.sockSeq
            /\ ws'.timerSeq = ws.timerSeq
            /\ ws'.timers = {}
            /\ ws'.backoffTimeout_ = 0]_vars

\* C20 witness: a resumable session with bytes queued got a frame with an
\* invalid header; then its socket failed, and no timer was set.
C20_Witness ==
    /\ Invalidated(ws)
    /\ ws.closed
    /\ ws.resume_
    /\ ws.socket_ = 0
    /\ ws.sockSeq = 1
    /\ ws.timerSeq = 0
    /\ getQueuedBytes(ws.writeBuffer_) > 0
    /\ ws.delivered = <<>>

\* ------------------------------------------ nothing issued while backing off

\* The timer pending in s is still pending in s2.
StillBackingOff(s, s2) ==
    /\ s.backoffTimeout_ # 0
    /\ s2.backoffTimeout_ = s.backoffTimeout_
    /\ s.backoffTimeout_ \in s2.timers

\* s2 has the read and the write request of s, untouched.
SameRequests(s, s2) ==
    /\ s2.readRequest_ = s.readRequest_
    /\ s2.writeRequest_ = s.writeRequest_

\* s2 has made no socket and sent no frame and no text since s.
SameSocketTraffic(s, s2) ==
    /\ s2.sockSeq = s.sockSeq
    /\ s2.socket_ = s.socket_
    /\ s2.frame = s.frame
    /\ s2.sentUpTo = s.sentUpTo
    /\ s2.texts = s.texts

\* Whatever is invoked on the polling stream s while its timer is pending,
\* and leaves it pending, issues no request: asyncWrite, resumeRead_,
\* sendWrite_, and the handlers of a read or a write request that ends.
XhrHoldsBack(s) ==
    s.backoffTimeout_ # 0 =>
        /\ SameRequests(s, resumeRead_(s))
        /\ SameRequests(s, sendWrite_(s))
        /\ \A n \in 1..MaxAsyncWrite :
                LET s2 == asyncWrite(s, Stream(s.accepted, n))
                IN  /\ SameRequests(s, s2)
                    /\ StillBackingOff(s, s2)
                    /\ getQueuedBytes(s2.writeBuffer_) =
                            getQueuedBytes(s.writeBuffer_) + n
        /\ s.readRequest_.readyState = "OPENED" =>
                \A status \in {200, 410, 500, 0}, len \in 0..MaxChunk :
                    LET s2 == ReadEnds(s, status, IF status = 200 THEN len ELSE 0)
                    IN  StillBackingOff(s, s2) =>
                            /\ s2.readRequest_.readyState = "DONE"
                            /\ s2.writeRequest_ = s.writeRequest_
        /\ s.writeRequest_.readyState = "OPENED" =>
                \A status \in {200, 410, 500, 0} :
                    LET s2 == WriteEnds(s, status)
                    IN  StillBackingOff(s, s2) =>
                            /\ s2.writeRequest_.readyState = "DONE"
                            /\ s2.readRequest_ = s.readRequest_

\* Whatever is invoked on the socket stream s while its timer is pending
\* opens no socket and sends nothing: asyncWrite, resumeRead_, sendWrite_
\* (also as the deferred follow-up send), and the events of the sockets
\* made so far.
WsHoldsBack(s) ==
    s.backoffTimeout_ # 0 =>
        /\ resumeRead_(s) = s
        /\ sendWrite_(s) = s
        /\ \A n \in 1..WsMaxAsyncWrite :
                LET s2 == asyncWrite(s, Stream(s.base + s.accepted, n))
                IN  /\ SameSocketTraffic(s, s2)
                    /\ StillBackingOff(s, s2)
                    /\ getQueuedBytes(s2.writeBuffer_) =
                            getQueuedBytes(s.writeBuffer_) + n
        /\ \A target \in 1..s.sockSeq :
                /\ SameSocketTraffic(s, onSocketOpen_(s, target))
                /\ SameSocketTraffic(s, onSocketError_(s, target))
                /\ \A len \in 0..WsMaxChunk :
                        SameSocketTraffic(s,
                            onSocketData_(s, target, s.writeCount_ % AckRange,
                                          Stream(s.base + Len(s.delivered), len), 1))

\* C17: in both transports, while a backoff timer is pending no read
\* request, write request, socket connection or data frame is issued,
\* whether a read or a write failed and whichever of asyncWrite,
\* resumeRead_, sendWrite_ or the deferred sendWrite_ is invoked; attempts
\* resume when the timer fires or a success cancels it.
C17_NothingIssuedWhileBackingOff ==
    [][/\ XhrHoldsBack(xhr)
       /\ XhrHoldsBack(xhr')
       /\ WsHoldsBack(ws)
       /\ WsHoldsBack(ws')
       /\ StillBackingOff(ws, ws') => SameSocketTraffic(ws, ws')
       /\ StillBackingOff(xhr, xhr') =>
            /\ ~isRequestBusy_(xhr.readRequest_) => ~isRequestBusy_(xhr'.readRequest_)
            /\ ~isRequestBusy_(xhr.writeRequest_) => ~isRequestBusy_(xhr'.writeRequest_)
       /\ (ws.backoffTimeout_ # 0 /\ ~StillBackingOff(ws, ws')) =>
            /\ ws'.backoffTimeout_ = 0
            /\ ws'.timers = {}
            /\ ws'.sockSeq = ws.sockSeq + 1
            /\ ws'.uri.ack = ws.readCount_ % AckRange
            /\ ws'.uri.pos = ws.writeCount_ % AckRange
       /\ (xhr.backoffTimeout_ # 0 /\ ~StillBackingOff(xhr, xhr')) =>
            /\ xhr'.backoffTimeout_ = 0
            /\ isRequestBusy_(xhr'.readRequest_)
            /\ WriteTried(xhr')]_vars

\* The polling stream held back: the write request failed while a read was
\* in flight, the consumer then wrote more, and the read request ended in
\* failure too: the timer is pending, bytes are queued and unread, and no
\* request is in flight.
C17_WitnessPolling ==
    /\ xhr.backoffTimeout_ # 0
    /\ xhr.timers = {xhr.backoffTimeout_}
    /\ xhr.sessionID_ # "null"
    /\ xhr.writeRequest_.readyState = "DONE"
    /\ xhr.writeRequest_.status = 500
    /\ xhr.readRequest_.readyState = "DONE"
    /\ xhr.readRequest_.status = 0
    /\ getQueuedBytes(xhr.writeBuffer_) > 0

\* C17 witness: the socket failed, the timer is pending, the
\* consumer wrote, and there is no socket.
C17_Witness ==
    /\ ws.backoffTimeout_ # 0
    /\ ws.timers = {ws.backoffTimeout_}
    /\ ws.socket_ = 0
    /\ ws.sockSeq = 1
    /\ getQueuedBytes(ws.writeBuffer_) > 0

\* ------------------------------------------------------------ asyncWrite

\* What asyncWrite does to the stream s when given no bytes, and when given
\* the next n bytes of the consumer's stream, which starts at offset start.
AsyncWriteEffect(s, start, maxN) ==
    /\ asyncWrite(s, <<>>) = s
    /\ \A n \in 1..maxN :
            LET data == Stream(start, n)
                s1 == [s EXCEPT !.writeBuffer_ = write(@, data),
                                !.onWriteSuccess_ = "function"]
                s2 == asyncWrite(s, data)
            IN  /\ Queued(s1.writeBuffer_) = Queued(s.writeBuffer_) \o data
                /\ Queued(s2.writeBuffer_) = Queued(s.writeBuffer_) \o data
                /\ s.backoffTimeout_ = 0 => s2 = sendWrite_(s1)
                /\ s.backoffTimeout_ # 0 => s2 = s1

\* C22: asyncWrite with empty input changes nothing; with non-empty input
\* it appends exactly those bytes to the end of the outbound buffer and
\* invokes sendWrite_ if and only if no backoff timer is pending.
C22_AsyncWriteAppendsAndSends ==
    /\ AsyncWriteEffect(xhr, xhr.accepted, MaxAsyncWrite)
    /\ AsyncWriteEffect(ws, ws.base + ws.accepted, WsMaxAsyncWrite)

\* C22 witness: the consumer wrote while the timer was pending and no
\* request in flight, on a stream that had sent bytes before: the bytes are
\* unread at the end of the buffer and no write request went out.
C22_Witness ==
    /\ xhr.backoffTimeout_ # 0
    /\ xhr.writeRequest_.readyState = "DONE"
    /\ xhr.writeRequest_.status = 500
    /\ xhr.accepted = 3
    /\ Len(Queued(xhr.writeBuffer_)) = 3
    /\ getQueuedBytes(xhr.writeBuffer_) = 1

\* ------------------------------------------------------- errors ignored

\* The pending timers of s are the one of backoffTimeout_, or none.
OneTimer(s) == s.timers = IF s.backoffTimeout_ = 0 THEN {} ELSE {s.backoffTimeout_}

\* requestError_ would be ignored in s.
Unarmed(s) == s.sessionID_ = "null" \/ s.backoffTimeout_ # 0

\* requestError_ changes nothing in s when there is no session or a timer
\* is pending.
ErrorIgnored(s) ==
    Unarmed(s) => (requestError_(s, TRUE) = s /\ requestError_(s, FALSE) = s)

\* The read or the write request of s ends in failure, with a 500 or with
\* the error event followed by loadend: when requestError_ is ignored only
\* the request itself changes; otherwise one timer is set, for the duration
\* that follows the current one.
FailureBacksOffOnce(s) ==
    \A status \in {500, 0} :
        /\ s.readRequest_.readyState = "OPENED" =>
                LET s2 == ReadEnds(s, status, 0)
                IN  IF Unarmed(s)
                    THEN s2 = [s EXCEPT !.readRequest_ = Done(@, status, <<>>),
                                        !.failing = TRUE]
                    ELSE /\ s2.timerSeq = s.timerSeq + 1
                         /\ s2.timers = {s2.backoffTimeout_}
                         /\ s2.backoffMS_ = NextBackoffMS(s.backoffMS_)
        /\ s.writeRequest_.readyState = "OPENED" =>
                LET s2 == WriteEnds(s, status)
                IN  IF Unarmed(s)
                    THEN s2 = [s EXCEPT !.writeRequest_ = Done(@, status, <<>>),
                                        !.failing = TRUE]
                    ELSE /\ s2.timerSeq = s.timerSeq + 1
                         /\ s2.timers = {s2.backoffTimeout_}
                         /\ s2.backoffMS_ = NextBackoffMS(s.backoffMS_)

\* C25: a request error that arrives while no session is established or
\* while a backoff timer is pending changes no state; so at most one timer
\* is pending at any time, also when a failed request raises an error event
\* and a completion event, and when the read and the write request both
\* fail.
C25_ErrorsIgnoredOneTimer ==
    /\ OneTimer(xhr)
    /\ OneTimer(ws)
    /\ ErrorIgnored(xhr)
    /\ ErrorIgnored(ws)
    /\ FailureBacksOffOnce(xhr)

\* C25 witness: the write request failed with a 500 and the read request
\* with a network error after it; one timer, the first, is pending for 1 ms.
C25_Witness ==
    /\ xhr.writeRequest_.readyState = "DONE"
    /\ xhr.writeRequest_.status = 500
    /\ xhr.readRequest_.readyState = "DONE"
    /\ xhr.readRequest_.status = 0
    /\ xhr.timerSeq = 1
    /\ xhr.timers = {1}
    /\ xhr.backoffMS_ = 1
    /\ xhr.overlay.n = 0

\* ---------------------------------------------------- the retry message

\* C26: a request error that schedules a backoff of d ms shows the retry
\* message if and only if d >= 1000, and shows it for d + 500 ms; errors
\* that are ignored and backoffs under 1000 ms show nothing.
C26_RetryNoticeFromOneSecond ==
    [][IF xhr'.timerSeq = xhr.timerSeq + 1 /\ xhr'.backoffMS_ >= 1000
       THEN xhr'.overlay = [n |-> xhr.overlay.n + 1, ms |-> xhr'.backoffMS_ + 500]
       ELSE xhr'.overlay = xhr.overlay]_vars

\* C26 witness: after backoffs of 1, 15, 43, 99, 211, 435 and 883 ms that
\* showed nothing, the backoff of 1779 ms has shown the first message, for
\* 2279 ms.
C26_Witness ==
    /\ xhr.backoffMS_ = 1779
    /\ xhr.timerSeq = 8
    /\ xhr.timers = {8}
    /\ xhr.overlay = [n |-> 1, ms |-> 2279]

\* ------------------------------------------- a success while backing off

\* The stream t that a 200 leads to from s, where a timer was pending: the
\* timer is cancelled, the expiry action has run once more, and both the
\* read and the write have been attempted.
CancelledAndRetried(s, t) ==
    /\ t.timers = {}
    /\ t.backoffTimeout_ = 0
    /\ t.backoffMS_ = 0
    /\ t.timerSeq = s.timerSeq
    /\ t.cleared = s.cleared + 1
    /\ t.expiries = s.expiries + 1
    /\ ReadTried(t)
    /\ WriteTried(t)

\* C24: when a request succeeds while a backoff timer is pending, the
\* timer is cancelled and the expiry action runs at once, attempting both
\* resumeRead_ and sendWrite_; the cancelled timer never fires, so every
\* timer set and no longer pending has run the expiry action exactly once.
C24_SuccessCancelsTheTimer ==
    /\ xhr.expiries + Cardinality(xhr.timers) = xhr.timerSeq
    /\ xhr.cleared <= xhr.expiries
    /\ xhr.backoffTimeout_ # 0 =>
        /\ isRequestBusy_(xhr.readRequest_) =>
                \A len \in 0..MaxChunk :
                    CancelledAndRetried(xhr, ReadEnds(xhr, 200, len))
        /\ isRequestBusy_(xhr.writeRequest_) =>
                CancelledAndRetried(xhr, WriteEnds(xhr, 200))

\* C24 witness: the only timer set was cancelled by a success, the expiry
\* action has run once, and a read request is in flight again.
C24_Witness ==
    /\ xhr.timerSeq = 1
    /\ xhr.cleared = 1
    /\ xhr.expiries = 1
    /\ xhr.timers = {}
    /\ xhr.writeRequest_.readyState = "DONE"
    /\ xhr.writeRequest_.status = 500
    /\ isRequestBusy_(xhr.readRequest_)
    /\ xhr.readCount_ > 0

\* --------------------------------------------------- write completions

\* The bytes carried by the write request of s.
CarriedBy(s) == Base64UrlDecode(s.writeRequest_.data)

\* C27: each successful write completion acks the outbound buffer by the
\* number of bytes that request carried, advances writeCount_ by the same
\* number and then gives the new writeCount_ to the callback; the value
\* given is always the total of the bytes carried by the write requests
\* that succeeded so far, though the next send starts before the callback
\* runs.
C27_WriteDoneAcksAndNotifies ==
    /\ xhr.writeCount_ = xhr.carried
    /\ xhr.carried > 0 => xhr.writeSuccess = xhr.carried
    /\ xhr.carried = 0 => xhr.writeSuccess = -1
    /\ isRequestBusy_(xhr.writeRequest_) =>
            LET n == Len(CarriedBy(xhr))
                t == WriteEnds(xhr, 200)
            IN  /\ n = xhr.lastWriteSize_
                /\ n > 0
                /\ Queued(t.writeBuffer_) = DropFirst(Queued(xhr.writeBuffer_), n)
                /\ t.writeCount_ = xhr.writeCount_ + n
                /\ t.writeSuccess = t.writeCount_
                /\ t.carried = t.writeCount_
                /\ WriteTried(t)

\* C27 witness: two write requests have succeeded, of 2 bytes and of 1,
\* the callback was given 3, and the next request, started before the
\* callback ran, is in flight.
C27_Witness ==
    /\ xhr.carried = 3
    /\ xhr.writeSuccess = 3
    /\ xhr.lastSent = [wcnt |-> 2, bytes |-> Stream(2, 1)]
    /\ isRequestBusy_(xhr.writeRequest_)
    /\ xhr.writeRequest_.cnt = 3

\* ------------------------------------------------------ inbound payloads

\* The 24-bit headers a relay can send to s: the acks of the offsets from
\* what s knows to be acked to what it has sent.
RelayAcks(s) == {a % AckRange : a \in s.writeCount_..s.sentUpTo}

\* C30: a valid inbound frame with a payload delivers the payload once, in
\* arrival order, and adds its length to readCount_; one with no payload
\* delivers nothing and leaves readCount_; either way success is reported
\* for the write side only: sendWrite_ is attempted and no connection is
\* opened.
C30_FrameDeliversPayloadOnce ==
    /\ ws.delivered = Stream(ws.base, Len(ws.delivered))
    /\ ws.readCount_ = ws.base + Len(ws.delivered)
    /\ (ws.socket_ # 0 /\ ws.readyState = 1) =>
        \A hdr \in RelayAcks(ws), len \in 0..WsMaxChunk :
            LET payload == Stream(ws.base + Len(ws.delivered), len)
                t == onSocketData_(ws, ws.socket_, hdr, payload, 1)
                unread == getQueuedBytes(
                            ack(ws.writeBuffer_, AckDelta(hdr, ws.writeCount_)))
            IN  /\ t.delivered = ws.delivered \o payload
                /\ t.readCount_ = ws.readCount_ + len
                /\ t.socket_ = ws.socket_
                /\ t.sockSeq = ws.sockSeq
                /\ t.uri = ws.uri
                /\ t.backoffMS_ = 0
                /\ IF unread > 0
                   THEN /\ t.frame.n = ws.frame.n + 1
                        /\ t.frame.ack = t.readCount_ % AckRange
                   ELSE t.frame = ws.frame

\* C30 witness: a frame with one byte of payload arrived while a byte was
\* waiting for the deferred send: the byte was delivered, readCount_ is 1,
\* and the waiting byte went out at once in a second frame that acks 1.
C30_Witness ==
    /\ ws.delivered = Stream(0, 1)
    /\ ws.readCount_ = 1
    /\ ws.sockSeq = 1
    /\ ws.frame.n = 2
    /\ ws.frame.ack = 1
    /\ ws.sendTimers = 1

\* -------------------------------------------------------- outbound frames

\* A step that sends a data frame.
FrameSent == ws'.frame.n = ws.frame.n + 1

\* C29: every outbound data frame is the header readCount_ mod 2^24 of the
\* time of the send and at most maxMessageLength payload bytes, the next
\* of the outbound buffer; when unread bytes remain after a send a
\* follow-up send is scheduled, so that while the socket stays open every
\* byte given to asyncWrite is eventually sent, once and in order, whether
\* or not acks arrive.
C29_FramesCarryTheStreamInOrder ==
    /\ [](getQueuedBytes(ws.writeBuffer_) > 0 => ws.sendTimers > 0)
    /\ [][/\ ws'.frame.n \in {ws.frame.n, ws.frame.n + 1}
          /\ FrameSent =>
                /\ ws'.frame.ack = ws'.readCount_ % AckRange
                /\ Len(ws'.frame.payload) \in 1..WsMaxMessageLength
                /\ ws'.frame.payload = Stream(ws.sentUpTo, Len(ws'.frame.payload))
                /\ ws'.sentUpTo = ws.sentUpTo + Len(ws'.frame.payload)
                /\ ws'.sentUpTo <= ws.base + ws'.accepted
          /\ ~FrameSent => ws'.sentUpTo = ws.sentUpTo]_vars
    /\ []<>(ws.sentUpTo = ws.base + ws.accepted)

\* C29 witness: three bytes written at once have gone out in two frames,
\* of 2 bytes and of 1, across 2^24, and no ack has arrived.
C29_Witness ==
    /\ ws.base = 16777214
    /\ ws.accepted = 3
    /\ ws.frame = [n |-> 2, sock |-> 1, ack |-> 16777214, pos |-> 16777216,
                   payload |-> Stream(16777216, 1)]
    /\ ws.sentUpTo = 16777217
    /\ ws.writeCount_ = 16777214
    /\ ws.sendTimers = 0

\* ------------------------------------------------------------ reconnection

\* A step that makes a socket.
SocketMade == ws'.sockSeq = ws.sockSeq + 1

\* A step that sends the first data frame of a socket made after the first.
FirstFrameAfterReconnect ==
    /\ FrameSent
    /\ ws'.frame.sock # ws.frame.sock
    /\ ws'.frame.sock > 1

\* C28: on a resumable stream, the connection made after a socket close or
\* error is opened with ack = readCount_ mod 2^24 and pos = writeCount_ mod
\* 2^24, and the first data frame sent on it carries the outbound bytes
\* from stream offset writeCount_ on: what was sent on the old socket and
\* not acknowledged is sent again.
C28_ReconnectResendsUnacked ==
    [][/\ SocketMade =>
            /\ ws'.uri.ack = ws'.readCount_ % AckRange
            /\ ws'.uri.pos = ws'.writeCount_ % AckRange
       /\ FirstFrameAfterReconnect =>
            ws'.frame.payload = Stream(ws'.writeCount_, Len(ws'.frame.payload))]_vars

\* ------------------------------------------------------------------ C21

\* The session is established and the stream is open.
Established(s) == s.sessionID_ # "null" /\ ~s.closed

\* The socket of a resumable stream has failed and none was made since.
SocketLost(s) ==
    s.resume_ /\ s.socket_ = 0 /\ s.backoffTimeout_ # 0

\* C21: when the backoff timers fire, every transport error of an established
\* session whose stream is open is followed by a new attempt: a request opened
\* by the polling transport, a socket made by the socket transport.
C21_ErrorsAreRetried ==
    /\ (xhr.unanswered /\ Established(xhr))
           ~> (~xhr.unanswered \/ ~Established(xhr))
    /\ (SocketLost(ws) /\ Established(ws))
           ~> (ws.socket_ # 0 \/ ~Established(ws))

\* What holds of C21: a lost socket is replaced, and an error that leaves no
\* read request in flight is followed by a request.
C21_SocketRetried ==
    (SocketLost(ws) /\ Established(ws)) ~> (ws.socket_ # 0 \/ ~Established(ws))

C21_ReadRetried ==
    (xhr.unanswered /\ Established(xhr) /\ ~isRequestBusy_(xhr.readRequest_))
        ~> (~xhr.unanswered \/ ~Established(xhr))

\* ------------------------------------------------------------------ C23

\* A backoff timer is pending or a write request is in flight.
HeldBack(s) == s.backoffTimeout_ # 0 \/ isRequestBusy_(s.writeRequest_)

\* From s to s2, the unread bytes and those the consumer has passed in stay
\* unread, in order, but for those at the front that a write request opened
\* on the way carries; bytes passed in while s is held back all stay.
Handed(s, s2) ==
    LET all == Unread(s.writeBuffer_) \o Stream(s.accepted, s2.accepted - s.accepted)
        d == IF Len(Unread(s2.writeBuffer_)) < Len(all) THEN CarriedBy(s2) ELSE <<>>
    IN  /\ all = d \o Unread(s2.writeBuffer_)
        /\ d # <<>> => s2.writeRequest_.readyState = "OPENED"
        /\ HeldBack(s) /\ s2.accepted > s.accepted => d = <<>>

\* C23: on the polling transport, the bytes passed to asyncWrite while a
\* backoff timer is pending or a write request is in flight stay in the
\* outbound buffer, unread; unread bytes leave only in a write request, in
\* order; and when timers fire and no write request stays in flight for ever
\* (each ends, with a 200 after at most MaxBackoffs failures that back off),
\* every byte is taken by a write request, whether or not the consumer
\* writes again.
C23_HeldBytesAreSentLater ==
    /\ [][Handed(xhr, xhr')]_vars
    /\ []<>(~isRequestBusy_(xhr.writeRequest_))
            => []<>(getQueuedBytes(xhr.writeBuffer_) = 0)

\* C23 witness: the first byte went out alone and its request failed; the
\* next two were passed in before the timer fired, and the write request the
\* timer opened carries them.
C23_Witness ==
    /\ xhr.timerSeq = 1
    /\ xhr.expiries = 1
    /\ xhr.carried = 0
    /\ xhr.accepted = 3
    /\ xhr.writeRequest_.readyState = "OPENED"
    /\ CarriedBy(xhr) = Stream(1, 2)
    /\ getQueuedBytes(xhr.writeBuffer_) = 0

\* ------------------------------------------------------------------ C31

\* What a frame of the current socket with header hdr does to the samples
\* of s: one is recorded, elapsed, exactly when a send is pending and hdr is
\* the ack stored at that send; the send is then no longer pending unless
\* the same handler sends again.
SampleOf(s, hdr, elapsed) ==
    LET t == FrameArrives(s, hdr, 0, elapsed)
        taken == s.ackTime_ # 0 /\ hdr = s.expectedAck_
    IN  /\ t.samples = s.samples + (IF taken THEN 1 ELSE 0)
        /\ taken => /\ t.ackTimes_[s.ackTimesIndex_ + 1] = elapsed
                    /\ t.ackTime_ # 0 => t.frame.n = s.frame.n + 1
        /\ ~taken => /\ t.ackTimes_ = s.ackTimes_
                     /\ t.ackTimesIndex_ = s.ackTimesIndex_
                     /\ t.texts = s.texts

\* Math.round of the mean of the last AckTimesLength samples of s, the
\* circular buffer being full.
LastAverage(s) ==
    LET total == Sum(s.ackTimes_)
    IN  CHOOSE r \in 0..total :
            /\ 2 * AckTimesLength * r <= 2 * total + AckTimesLength
            /\ 2 * total + AckTimesLength < 2 * AckTimesLength * (r + 1)

\* C31: a latency sample is recorded only for a frame whose ack is the one
\* stored at the last send while that send is pending, at most one per send;
\* the circular index stays in 0..9; and an "A:" message with the rounded
\* average of the last 10 samples is sent each time the number of samples
\* reaches a positive multiple of 10 when reportAckLatency is set, and at no
\* other time.
C31_OneSamplePerSendAverageEveryTen ==
    /\ ws.ackTimesIndex_ \in 0..(AckTimesLength - 1)
    /\ ws.ackTimesIndex_ = ws.samples % AckTimesLength
    /\ ws.samples <= ws.frame.n
    /\ ws.ackTime_ # 0 => ws.samples < ws.frame.n
    /\ Len(ws.texts) = IF ws.reportAckLatency
                       THEN ws.samples \div AckTimesLength
                       ELSE 0
    /\ ws.reportAckLatency /\ ws.samples > 0 /\ ws.ackTimesIndex_ = 0
           => ws.texts[Len(ws.texts)] = LastAverage(ws)
    /\ ws.socket_ # 0 =>
           \A hdr \in RelayAcks(ws) \cup {ws.expectedAck_}, elapsed \in AckLatencies :
               SampleOf(ws, hdr, elapsed)

\* C31 witness: the tenth sample has been recorded, 7 ms for the ninth and
\* the tenth send, and the average of the ten, 45 / 10 rounded to 5, has gone
\* out as the one "A:" message.
C31_Witness ==
    /\ ws.samples = 10
    /\ ws.ackTimesIndex_ = 0
    /\ ws.ackTimes_ = <<3, 1, 4, 1, 5, 9, 2, 6, 7, 7>>
    /\ ws.texts = <<5>>

\* ------------------------------------------------------------------ C32

\* t is s after a socket failure that set one backoff timer, the only one
\* pending, and the firing of that timer makes the next socket.
BacksOffAndReconnects(s, t) ==
    /\ ~t.closed
    /\ t.timerSeq = s.timerSeq + 1
    /\ t.backoffTimeout_ = t.timerSeq
    /\ t.timers = {t.backoffTimeout_}
    /\ t.sockSeq = s.sockSeq
    /\ LET u == onBackoffExpired_([t EXCEPT !.timers = {}])
       IN  /\ u.socket_ = s.sockSeq + 1
           /\ u.sockSeq = s.sockSeq + 1
           /\ u.readyState = 0

\* A stream that is not resumable never backs off, and has had one socket
\* at most.
NeverReconnects(s) == s.resume_ \/ (s.timerSeq = 0 /\ s.timers = {} /\ s.sockSeq <= 1)

\* C32 as stated: a close or error event of the current socket discards the
\* socket; a resumable stream then sets exactly one backoff timer, whose
\* firing makes a new socket; a stream that is not resumable is closed, and
\* never makes a socket again.
C32_SocketFailureRetriesOrCloses ==
    /\ NeverReconnects(ws)
    /\ ws.socket_ # 0 =>
           LET t == onSocketError_(ws, ws.socket_)
           IN  /\ t.socket_ = 0
               /\ ws.resume_ => BacksOffAndReconnects(ws, t)
               /\ ~ws.resume_ => t = close([ws EXCEPT !.socket_ = 0])

\* C32 amended: the resumable stream backs off and reconnects when its
\* session is established; when a header over 0xffffff has ended the session
\* (sessionID_ is null, the socket still current), the failure of the socket
\* discards it and sets no timer, and no socket is made again.
C32_SocketFailureRetriesWhileEstablished ==
    /\ NeverReconnects(ws)
    /\ ws.socket_ # 0 =>
           LET t == onSocketError_(ws, ws.socket_)
           IN  /\ t.socket_ = 0
               /\ ws.resume_ /\ ws.sessionID_ # "null" => BacksOffAndReconnects(ws, t)
               /\ ws.resume_ /\ ws.sessionID_ = "null" =>
                      /\ t = [ws EXCEPT !.socket_ = 0]
                      /\ t.timers = {}
                      /\ resumeRead_(t) = t
               /\ ~ws.resume_ => t = close([ws EXCEPT !.socket_ = 0])

\* C32 witness: the first socket of a resumable stream failed, one timer was
\* set and has fired, and the second socket is current.
C32_Witness ==
    /\ ws.resume_
    /\ ws.timerSeq = 1
    /\ ws.expiries = 1
    /\ ws.timers = {}
    /\ ws.sockSeq = 2
    /\ ws.socket_ = 2

\* ------------------------------------------------------------------ C33

\* The number of calls of onComplete that a handshake request in the given
\* state has made.
CallsOfOnComplete(s) == Len(s.onComplete)

\* C33: the completion callback of asyncOpen_ is called once per call of
\* asyncOpen_, whatever the handshake request ends with: not before the
\* request ends, and once when it has ended.
C33_OnCompleteCalledOnce ==
    /\ xhr.sessionRequest.readyState # "DONE" => CallsOfOnComplete(xhr) = 0
    /\ xhr.sessionRequest.readyState = "DONE" => CallsOfOnComplete(xhr) = 1

\* What holds of C33: one call for a request that ends with a status, 200
\* or not, and two for one that ends with a network error, an abort or a
\* timeout.
C33_OnCompleteCalledOnceOrTwice ==
    /\ xhr.sessionRequest.readyState # "DONE" => CallsOfOnComplete(xhr) = 0
    /\ xhr.sessionRequest.readyState = "DONE" =>
           CallsOfOnComplete(xhr) = IF xhr.sessionRequest.status = 0 THEN 2 ELSE 1

\* ------------------------------------------------------------------ C34

\* asyncWrite of data on s opens no write request and leaves data unread
\* at the end of the outbound buffer.
KeptForLater(s, data) ==
    LET t == asyncWrite(s, data)
    IN  /\ t.writeRequest_ = s.writeRequest_
        /\ Unread(t.writeBuffer_) = Unread(s.writeBuffer_) \o data

\* C34: on the polling transport, while the handshake request is in flight
\* and sessionID_ is null, asyncWrite opens no write request: the bytes wait
\* in the outbound buffer for the session.
C34_NoWriteRequestBeforeSession ==
    /\ xhr.sessionRequest.readyState = "OPENED"
    /\ xhr.sessionID_ = "null"
    /\ ~xhr.closed
    => \A n \in 1..MaxAsyncWrite : KeptForLater(xhr, Stream(xhr.accepted, n))

\* ------------------------------------------------------------------ C35

\* The backoff timer of s is set and has not fired yet.
TimerPending(s) == s.backoffTimeout_ # 0 /\ s.backoffTimeout_ \in s.timers

\* C35: on the polling transport, between event handlers, a stream with an
\* established session that is not closed has a read request in flight or a
\* backoff timer pending, whatever the order of the successes, the errors
\* and the timer firings.
C35_ReadInFlightOrBackingOff ==
    Established(xhr) => isRequestBusy_(xhr.readRequest_) \/ TimerPending(xhr)

\* C35 witness: the write request failed and set the timer, then the read
\* request failed and was ignored: no read is in flight and the timer that
\* will open the next one is pending.
C35_Witness ==
    /\ Established(xhr)
    /\ xhr.readRequest_.readyState = "DONE"
    /\ xhr.readRequest_.status = 500
    /\ xhr.writeRequest_.readyState = "DONE"
    /\ xhr.writeRequest_.status = 0
    /\ xhr.writeRequest_.sid = "sid"
    /\ xhr.timerSeq = 1
    /\ TimerPending(xhr)

\* ------------------------------------------------------------------ C36

\* C36: on the polling transport, writeCount_ plus the number of bytes the
\* outbound buffer holds, read or unread, is the number of bytes asyncWrite
\* has accepted; and the ack made when a write request succeeds is of no
\* more bytes than have been read from the buffer.
C36_CountPlusQueuedIsAccepted ==
    /\ xhr.writeCount_ + xhr.writeBuffer_.queued_.len = xhr.accepted
    /\ xhr.writeBuffer_.readCount_ >= 0
    /\ isRequestBusy_(xhr.writeRequest_) =>
           /\ xhr.lastWriteSize_ <= xhr.writeBuffer_.readCount_
           /\ LET t == WriteEnds(xhr, 200)
              IN  t.writeCount_ + t.writeBuffer_.queued_.len = t.accepted

\* C36 witness: a write request with two bytes failed, the byte written
\* during the backoff went out when the timer fired and was answered 200:
\* one byte is counted and acked, and two are still in the buffer.
C36_Witness ==
    /\ xhr.timerSeq = 1
    /\ xhr.accepted = 3
    /\ xhr.carried = 1
    /\ xhr.lastSent = [wcnt |-> 0, bytes |-> Stream(2, 1)]
    /\ xhr.writeCount_ = 1
    /\ xhr.writeBuffer_.queued_.len = 2
    /\ xhr.writeBuffer_.readCount_ = 2

\* ------------------------------------------------------------------ C37

\* The sockets s has made that are not its current one.
OldSockets(s) == (1..s.sockSeq) \ {s.socket_}

\* The open, message, close and error events of the socket target leave s
\* as it is.
EventsIgnored(s, target) ==
    /\ onSocketOpen_(s, target) = s
    /\ onSocketError_(s, target) = s
    /\ \A hdr \in RelayAcks(s) \cup InvalidAcks, len \in 0..WsMaxChunk :
           onSocketData_(s, target, hdr, Stream(s.base + Len(s.delivered), len), 1) = s

\* C37: on the socket transport a socket is made only when none is current,
\* so at most one is; none is current while a backoff timer is pending; and
\* the events of a socket that is not the current one change nothing.
C37_OneSocketStaleEventsIgnored ==
    /\ []((ws.backoffTimeout_ # 0 \/ ws.timers # {}) => ws.socket_ = 0)
    /\ [](ws.socket_ \in 0..ws.sockSeq)
    /\ [](\A target \in OldSockets(ws) : EventsIgnored(ws, target))
    /\ [][ws'.sockSeq # ws.sockSeq =>
              /\ ws.socket_ = 0
              /\ ws'.sockSeq = ws.sockSeq + 1
              /\ ws'.socket_ = ws'.sockSeq]_vars

\* C37 witness: the first socket was discarded and the second is current
\* and open, with bytes to send and a frame sent on it: the events of the
\* first still count as those of another socket.
C37_Witness ==
    /\ ws.sockSeq = 2
    /\ ws.socket_ = 2
    /\ ws.readyState = 1
    /\ ws.frame.sock = 2
    /\ OldSockets(ws) = {1}

\* ------------------------------------------------------------------ C38

\* C38: in a run of request errors with no success in between, an error
\* that comes when the last backoff scheduled was of 1000 ms or more
\* schedules one of 1001 ms or more, and shows the retry message again; the
\* duration goes back under 1000 ms only through 0, at a success.
C38_NoticeStaysUntilSuccess ==
    [][/\ xhr'.timerSeq # xhr.timerSeq /\ xhr.backoffMS_ >= 1000 =>
            /\ xhr'.backoffMS_ >= 1001
            /\ xhr'.overlay = [n |-> xhr.overlay.n + 1, ms |-> xhr'.backoffMS_ + 500]
       /\ xhr.backoffMS_ >= 1000 /\ xhr'.backoffMS_ < 1000 =>
            /\ xhr'.backoffMS_ = 0
            /\ isRequestBusy_(xhr.readRequest_)
            /\ ~xhr'.failing]_vars

\* C38 witness: the errors of one run have scheduled 1779, 3571, 7155 and
\* then, 14323 being over 10000, the remapped 4677 ms; each of the four has
\* shown the message.
C38_Witness ==
    /\ xhr.timerSeq = 11
    /\ xhr.backoffMS_ = 4677
    /\ xhr.timers = {11}
    /\ xhr.overlay = [n |-> 4, ms |-> 5177]


\* ------------------------------------------------ C39: the pipeline's queue

\* The items 1..n in the order the producer gave them.
ItemsUpTo(n) == [i \in 1..n |-> i]

\* C39: under any interleaving of the two processes the queue never holds
\* more than size items; the items passed to the consumer, followed by the
\* queued ones, are the items produced, in the order produced (each item the
\* consumer gets is the oldest one not yet consumed, and none is passed
\* twice); and producer is never called while the queue is full.
C39_QueueBoundedFifoNoCallWhenFull ==
    /\ [](/\ Len(pipe.queue_) <= pipe.queueSize_
          /\ pipe.consumed \o pipe.queue_ = ItemsUpTo(pipe.produced))
    /\ [][/\ pipe'.producerCalls # pipe.producerCalls =>
                 /\ pipe'.producerCalls = pipe.producerCalls + 1
                 /\ Len(pipe'.queue_) < pipe.queueSize_
          /\ Len(pipe'.consumed) # Len(pipe.consumed) =>
                 /\ pipe.queue_ # <<>>
                 /\ pipe'.consumed = Append(pipe.consumed, Head(pipe.queue_))
                 /\ pipe'.queue_ = Tail(pipe.queue_)]_vars

\* The producer sleeps on a full queue of two items while the consumer works
\* on the first item, and has been called three times.
C39_Witness ==
    /\ pipe.queueSize_ = 2
    /\ pipe.queue_ = <<2, 3>>
    /\ pipe.consumed = <<1>>
    /\ pipe.producerAt = "sleeping"
    /\ pipe.consumerAt = "calling"
    /\ pipe.producerCalls = 3

\* ------------------------------------------------- C40: run() resolves

\* The promise of run() is resolved: producerProcess_ has resolved and the
\* callback on it has run, and consumerProcess_ has resolved.
RunResolved ==
    /\ pipe.producerFinished_
    /\ pipe.consumerAt = "resolved"

\* C40: when timers fire and the promises of producer() and consumer()
\* settle, run() resolves in the end once the producer has returned
\* FINISHED, once stop() has been called, and once the producer or the
\* consumer has rejected.
C40_RunResolves ==
    (/\ pipe.running
     /\ \/ pipe.producerEnd = "FINISHED"
        \/ pipe.halt_
        \/ pipe.producerEnd = "rejected"
        \/ pipe.consumerRejected) ~> RunResolved

\* The consumer has rejected, and the producer sleeps on a full queue.
ProducerLeftAlone ==
    /\ pipe.consumerRejected
    /\ pipe.consumerAt = "resolved"
    /\ ~pipe.halt_
    /\ pipe.producerAt = "sleeping"
    /\ Len(pipe.queue_) = pipe.queueSize_

\* From there nothing changes until stop() is called.
C40_ProducerSleepsForEver ==
    [][ProducerLeftAlone => pipe'.halt_]_vars

\* run() does resolve once the producer has returned FINISHED or rejected,
\* and once stop() has been called.
C40_ResolvesWhenProducerEndsOrStopped ==
    (/\ pipe.running
     /\ \/ pipe.producerEnd # "none"
        \/ pipe.halt_) ~> RunResolved

\* After FINISHED the consumer process ends with the queue empty, unless
\* stop() or a rejection ends it; after stop() neither producer nor consumer
\* is called again.
C40_DrainedAndHalted ==
    /\ []((/\ pipe.consumerAt = "resolved"
           /\ ~pipe.halt_
           /\ ~pipe.consumerRejected) => /\ pipe.queue_ = <<>>
                                         /\ pipe.producerFinished_)
    /\ [][pipe.halt_ => /\ pipe'.producerCalls = pipe.producerCalls
                        /\ pipe'.consumed = pipe.consumed]_vars

\* After stop() the queue gets no new item.
C40_NoItemQueuedAfterStop ==
    [][pipe.halt_ => pipe'.produced = pipe.produced]_vars
====
